---- MODULE Spec2Model ----
(***************************************************************************)
(* A model of the CSV aggregation pipeline of                              *)
(* src/services/csv_processing_service.py (class CSVProcessingService):    *)
(* preprocess_csv reads the input in chunks, _process_chunk cleans each    *)
(* chunk and drops the rows whose case_id+'_'+trans_key was seen in an     *)
(* earlier chunk, the surviving rows are accumulated per case_id in        *)
(* all_groups, and after the last chunk _aggregate_case_data turns every   *)
(* accumulated case into one result row.                                   *)
(*                                                                         *)
(* Representation.  Cells read by pandas with dtype=str are TLA+ strings,  *)
(* a missing cell is NaN.  Amounts are counted in hundredths (Cent), so    *)
(* that 10.01 is 1001.  A parsed timestamp is the number of hours since    *)
(* day 0 (date * 24 + hour), NaT when there is none.  A text cell of the   *)
(* fund_usage column is known by the keyword fragments it contains.        *)
(*                                                                         *)
(* Specifications.  Spec is preprocess_csv, run after run on one service;  *)
(* SpecCase is preprocess_csv on files of one case; SpecEntry is           *)
(* process_csv_for_dify, call after call; SpecNormalizer is                *)
(* _safe_convert_to_float and convert_single_datetime, call after call;    *)
(* SpecScheduler is the task executions of src/scheduler/task_scheduler.py *)
(* and src/api/task_api.py, each in a thread of its own; SpecBatch is      *)
(* BatchApiService of src/services/batch_api_service.py on one CSV file.   *)
(***************************************************************************)
EXTENDS Integers, Sequences, FiniteSets, TLC

----------------------------------------------------------------------------
(* Bounds of the model *)

\* longest input of the exhaustive input families
MaxRows == 3
\* largest small chunk size tried (the configured default is tried too)
MaxChunkSize == 2
\* rows above the high-frequency threshold in the largest bulk case
BulkExtra == 10

----------------------------------------------------------------------------
(* Missing values *)

\* pandas NaN in a text column (read_csv turns an empty cell into it)
NaN == "<NaN>"
\* pd.NaT in the trans_datetime / trans_date columns
NaT == -1
\* np.nan in the hour column
HourNaN == -1

HoursPerDay == 24
\* amounts are held in hundredths
Cent == 100

----------------------------------------------------------------------------
(* Program constants *)

\* Settings.CSV_PROCESSING_CHUNK_SIZE default
CSV_PROCESSING_CHUNK_SIZE == 50000
\* avg_trans_amt <= 10
SmallAmtMax == 10
\* len(g) >= 50
HighFreqMin == 50
\* hour >= 23 or hour <= 6
NightFrom == 23
NightUntil == 6
\* nsmallest / nlargest take min(3, len)
SampleEachEnd == 3
\* the ratio thresholds, in tenths: night 0.8, integer amounts 0.7, round
\* amounts 0.5, missing counterparty 0.5, distinct ip 0.5, distinct mac 0.3
NightRatioTenths == 8
IntegerRatioTenths == 7
RoundRatioTenths == 5
AnonymousRatioTenths == 5
IpRatioTenths == 5
MacRatioTenths == 3

----------------------------------------------------------------------------
(* Value Normalizer *)

\* float values that are not finite, encoded outside the amounts of the model
FloatInf == 1000000000
FloatNegInf == -1000000000
FloatNan == 2000000000

\* the texts float() accepts once stripped and lowered, with the value it
\* gives them (finite values in hundredths)
FloatLiteral ==
  [s \in {"5", "10", "10.01", "200", "inf", "-inf", "nan"} |->
     CASE s = "5" -> 5 * Cent
       [] s = "10" -> 10 * Cent
       [] s = "10.01" -> 10 * Cent + 1
       [] s = "200" -> 200 * Cent
       [] s = "inf" -> FloatInf
       [] s = "-inf" -> FloatNegInf
       [] s = "nan" -> FloatNan]

\* str(value).strip().lower() on the texts of the model
StripLower(value) ==
  CASE value = "N/A" -> "n/a"
    [] value = "NULL" -> "null"
    [] value = "<NULL>" -> "<null>"
    [] value = "#N/A" -> "#n/a"
    [] value = "NaN" -> "nan"
    [] value = "INF" -> "inf"
    [] value = "-INF" -> "-inf"
    [] value = " inf " -> "inf"
    [] value = " 5 " -> "5"
    [] value = " null " -> "null"
    [] OTHER -> value

\* float(value) does not raise ValueError: float() ignores surrounding
\* white space and the letter case of inf and nan
float_parses(value) == StripLower(value) \in DOMAIN FloatLiteral

\* float(value) where it does not raise
float(value) == FloatLiteral[StripLower(value)]

NullTokens == {"null", "n/a", "nan", "inf", "-inf", "<null>", "#n/a"}

\* _safe_convert_to_float: a missing cell (pd.isna: NaN or None) is NaN
safe_convert_to_float(value, default) ==
  IF value = NaN \/ value = ""
  THEN default
  ELSE IF float_parses(value)
       THEN float(value)
       ELSE LET str_val == StripLower(value)
            IN IF str_val \in NullTokens
               THEN default
               ELSE IF float_parses(str_val)
                    THEN float(str_val)
                    ELSE default

\* the arguments of the model's _safe_convert_to_float calls: a missing
\* cell, the empty text, the null tokens in lower and upper case, texts
\* float() takes and texts it does not
FloatInputs ==
  {NaN, "", "null", "NULL", " null ", "n/a", "N/A", "nan", "NaN", "inf", "INF",
   " inf ", "-inf", "-INF", "<null>", "<NULL>", "#n/a", "#N/A", "abc", "5",
   " 5 ", "10.01", "200"}

FloatDefaults == {0, 1 * Cent, 0 - 1 * Cent}

----------------------------------------------------------------------------
(* Flexible Timestamp Parser *)

\* A raw trans_datetime cell.  Kind "nan" is a missing cell; kind "token" is
\* the text `text`, which has no digits; kind "date" is a text of three
\* numbers f1, f2, f3 separated by `sep`, followed by nothing (clock "none"),
\* by hour:minute (clock "hm") or by hour:minute:second (clock "hms"), of
\* which the model keeps the hour.  A number of four digits is a year.
RawCell(kind, text, sep, f1, f2, f3, clock, hour) ==
  [kind |-> kind, text |-> text, sep |-> sep, f1 |-> f1, f2 |-> f2, f3 |-> f3,
   clock |-> clock, hour |-> hour]

\* the year whose first day is day 0 of the model's timestamps
Year0 == 2024

IsLeap(y) == (y % 4 = 0 /\ y % 100 # 0) \/ y % 400 = 0

DaysInMonth(y, m) ==
  IF m = 2
  THEN IF IsLeap(y) THEN 29 ELSE 28
  ELSE IF m \in {4, 6, 9, 11} THEN 30 ELSE 31

RECURSIVE DaysBeforeMonth(_, _)
DaysBeforeMonth(y, m) ==
  IF m = 1 THEN 0 ELSE DaysBeforeMonth(y, m - 1) + DaysInMonth(y, m - 1)

RECURSIVE DaysBeforeYear(_)
DaysBeforeYear(y) ==
  IF y = Year0
  THEN 0
  ELSE DaysBeforeYear(y - 1) + (IF IsLeap(y - 1) THEN 366 ELSE 365)

\* the Timestamp of a calendar date and hour: hours since day 0
Timestamp(y, m, d, h) ==
  (DaysBeforeYear(y) + DaysBeforeMonth(y, m) + d - 1) * HoursPerDay + h

\* what strptime asks of the fields: %Y four digits, %m, %d a day of the month
ValidDate(y, m, d) ==
  /\ y >= 1000
  /\ y <= 9999
  /\ m \in 1..12
  /\ d >= 1
  /\ d <= DaysInMonth(y, m)

\* the month and the day of the month of day `day` of Year0
MonthOfDay(day) ==
  CHOOSE m \in 1..12 :
    DaysBeforeMonth(Year0, m) <= day
    /\ day < DaysBeforeMonth(Year0, m) + DaysInMonth(Year0, m)

DayOfDay(day) == day - DaysBeforeMonth(Year0, MonthOfDay(day)) + 1

RawNaT == RawCell("nan", "", "", 0, 0, 0, "none", 0)
RawJunk == RawCell("token", "abc", "", 0, 0, 0, "none", 0)
RawToken(text) == RawCell("token", text, "", 0, 0, 0, "none", 0)

\* the text of format '%Y-%m-%d %H:%M:%S' for day d of Year0 and hour h
RawTime(d, h) ==
  RawCell("date", "", "-", Year0, MonthOfDay(d), DayOfDay(d), "hms", h)

\* the formats with the day before the month tried first
formats_day_first ==
  <<[sep |-> "-", order |-> "ymd", clock |-> "hms"],
    [sep |-> "/", order |-> "ymd", clock |-> "hms"],
    [sep |-> "/", order |-> "dmy", clock |-> "hms"],
    [sep |-> "/", order |-> "mdy", clock |-> "hms"],
    [sep |-> "-", order |-> "ymd", clock |-> "none"],
    [sep |-> "/", order |-> "ymd", clock |-> "none"],
    [sep |-> "/", order |-> "dmy", clock |-> "none"],
    [sep |-> "/", order |-> "mdy", clock |-> "none"],
    [sep |-> "-", order |-> "ymd", clock |-> "hm"],
    [sep |-> "/", order |-> "mdy", clock |-> "hm"],
    [sep |-> "-", order |-> "ymd", clock |-> "bad"]>>

\* the list `formats`, in its order; the last entry, '%Y-%m-%d %h:%i:%s',
\* has directives strptime does not know (clock "bad") and matches no text
formats ==
  <<[sep |-> "-", order |-> "ymd", clock |-> "hms"],
    [sep |-> "/", order |-> "ymd", clock |-> "hms"],
    [sep |-> "/", order |-> "mdy", clock |-> "hms"],
    [sep |-> "/", order |-> "dmy", clock |-> "hms"],
    [sep |-> "-", order |-> "ymd", clock |-> "none"],
    [sep |-> "/", order |-> "ymd", clock |-> "none"],
    [sep |-> "/", order |-> "mdy", clock |-> "none"],
    [sep |-> "/", order |-> "dmy", clock |-> "none"],
    [sep |-> "-", order |-> "ymd", clock |-> "hm"],
    [sep |-> "/", order |-> "mdy", clock |-> "hm"],
    [sep |-> "-", order |-> "ymd", clock |-> "bad"]>>

\* the year, month and day a text's numbers are under a field order
fields_as(order, val) ==
  CASE order = "ymd" -> [y |-> val.f1, m |-> val.f2, d |-> val.f3]
    [] order = "mdy" -> [y |-> val.f3, m |-> val.f1, d |-> val.f2]
    [] order = "dmy" -> [y |-> val.f3, m |-> val.f2, d |-> val.f1]

\* pd.to_datetime(str_val, format=fmt, errors='raise') does not raise: the
\* whole text matches the format
format_matches(fmt, val) ==
  LET f == fields_as(fmt.order, val)
  IN /\ val.kind = "date"
     /\ val.sep = fmt.sep
     /\ val.clock = fmt.clock
     /\ ValidDate(f.y, f.m, f.d)
     /\ val.hour \in 0..23

\* the Timestamp of a text under a field order
timestamp_as(order, val) ==
  LET f == fields_as(order, val)
  IN Timestamp(f.y, f.m, f.d, val.hour)

\* pd.to_datetime(str_val, errors='coerce'), the inference after every format
\* failed: a leading year makes the numbers year, month, day; otherwise a
\* first number above 12 makes them day, month, year and any other first
\* number month, day, year; a text that is no date becomes NaT
infer_datetime(val) ==
  IF val.kind # "date"
  THEN NaT
  ELSE LET order == IF val.f1 >= 1000 THEN "ymd"
                    ELSE IF val.f1 > 12 THEN "dmy" ELSE "mdy"
           f == fields_as(order, val)
       IN IF ValidDate(f.y, f.m, f.d) /\ val.hour \in 0..23
          THEN timestamp_as(order, val)
          ELSE NaT

\* the tokens convert_single_datetime takes for null, beside the empty text
TimeNullTokens == {"null", "n/a", "nan", "<null>", "#n/a", ""}

RECURSIVE try_formats(_, _, _)
\* the for loop over formats from index i on, then the inference
try_formats(fmts, i, val) ==
  IF i > Len(fmts)
  THEN infer_datetime(val)
  ELSE IF format_matches(fmts[i], val)
       THEN timestamp_as(fmts[i].order, val)
       ELSE try_formats(fmts, i + 1, val)

convert_single_datetime(val) ==
  IF val.kind = "nan" \/ (val.kind = "token" /\ val.text = "")
  THEN NaT
  ELSE IF val.kind = "token" /\ StripLower(val.text) \in TimeNullTokens
       THEN NaT
       ELSE try_formats(formats, 1, val)

\* the arguments of the model's convert_single_datetime calls: a missing
\* cell, null tokens, texts that are no dates, and the texts of two numbers
\* and a year in either position, with either separator and every clock
TimeNumbers == {2, 4, 13, 30}

TimeInputs ==
  {RawNaT}
  \cup {RawToken(t) : t \in {"", "null", "NULL", "N/A", "nan", "<null>", "#N/A", "abc"}}
  \cup {RawCell("date", "", sep, IF first THEN Year0 ELSE a,
                IF first THEN a ELSE b, IF first THEN b ELSE Year0, clock,
                IF clock = "none" THEN 0 ELSE 10) :
          sep \in {"-", "/"}, first \in BOOLEAN, a \in TimeNumbers,
          b \in TimeNumbers, clock \in {"none", "hm", "hms"}}

----------------------------------------------------------------------------
(* Input rows *)

Row(c, k, amt, dt, usage, ip, mac) ==
  [case_id |-> c, trans_key |-> k, trans_amt |-> amt, trans_datetime |-> dt,
   fund_usage |-> usage, ip_addr |-> ip, mac_addr |-> mac,
   counterparty_name |-> "cp1", income_pay_flag |-> NaN]

\* Family 1: every sequence of at most MaxRows rows over two case ids and two
\* transaction keys (chosen so that case_id+'_'+trans_key can coincide) and
\* rows with a missing case_id or trans_key.
KeyRows ==
  {Row(c, k, "5", RawTime(1, 12), "gongzi", NaN, NaN) :
     c \in {"a", "a_b"}, k \in {"c", "b_c"}}
  \cup {Row(NaN, "c", "5", RawTime(1, 12), "gongzi", NaN, NaN),
        Row("a", NaN, "5", RawTime(1, 12), "gongzi", NaN, NaN)}

\* Family 2: one case whose rows have distinct transaction keys and every
\* combination of a missing, a first or a second ip_addr with a missing or
\* a present mac_addr.
TransKey(i) == "t" \o ToString(i)

AddrRows(i) ==
  {Row("a", TransKey(i), "200", RawTime(i, 12), "gongzi", ip, mac) :
     ip \in {NaN, "ip1", "ip2"}, mac \in {NaN, "m1"}}

RECURSIVE SeqsOver(_, _)
\* the sequences of length n whose i-th element is in S[i]
SeqsOver(S, n) ==
  IF n = 0
  THEN {<<>>}
  ELSE {Append(s, x) : s \in SeqsOver(S, n - 1), x \in S[n]}

KeyRowsAt == [i \in 1..MaxRows |-> KeyRows]

AddrRowsAt == [i \in 1..MaxRows |-> AddrRows(i)]

\* Family 3: one case of n rows with distinct keys and distinct timestamps.
\* The first `night` rows are at 23h and the others at 12h; the last `junk`
\* rows have no usable timestamp (alternately an unparsable text and a
\* missing cell); the odd rows carry amount amts[1] and the even rows
\* amts[2]; purpose, ip and mac are the same in every row.  The sizes lie
\* around the high-frequency threshold, the night counts around 0.8 of the
\* size and at 5/6 of it (50 of 60).
BulkDay(i, n) == (i * 7) % (n + 1)

BulkTime(i, n, night, junk) ==
  IF i > n - junk
  THEN IF i % 2 = 1 THEN RawJunk ELSE RawNaT
  ELSE RawTime(BulkDay(i, n), IF i <= night THEN NightFrom ELSE 12)

BulkCase(n, night, junk, amts, usage, ip, mac) ==
  [i \in 1..n |->
     Row("a", TransKey(i), amts[2 - (i % 2)], BulkTime(i, n, night, junk),
         usage, ip, mac)]

BulkSizes == {HighFreqMin - 1, HighFreqMin, HighFreqMin + BulkExtra}

BulkOf(n) ==
  {BulkCase(n, night, junk, amts, usage,
            IF addr THEN "ip1" ELSE NaN, IF addr THEN "m1" ELSE NaN) :
     night \in {(n * 8) \div 10, (n * 8) \div 10 + 1, (n * 5) \div 6},
     junk \in {0, BulkExtra},
     amts \in {<<"10", "10">>, <<"10.01", "10.01">>, <<"5", "10.01">>, <<"5", "10">>},
     usage \in {"chongzhi", "gongzi"},
     addr \in BOOLEAN}

BulkInputs == UNION {BulkOf(n) : n \in BulkSizes}

Inputs ==
  UNION {SeqsOver(KeyRowsAt, n) : n \in 1..MaxRows}
  \cup UNION {SeqsOver(AddrRowsAt, n) : n \in 1..MaxRows}
  \cup BulkInputs

ChunkSizes == (1..MaxChunkSize) \cup {CSV_PROCESSING_CHUNK_SIZE}

----------------------------------------------------------------------------
(* Chunk Processor *)

\* chunk_df['case_id'].astype(str) + '_' + chunk_df['trans_key'].astype(str)
case_trans_key(r) == r.case_id \o "_" \o r.trans_key

\* the cleaning part of _process_chunk on one row: trans_amt to float,
\* trans_datetime parsed, trans_date and hour derived from it
clean_row(r) ==
  LET dt == convert_single_datetime(r.trans_datetime)
  IN [case_id |-> r.case_id,
      trans_key |-> r.trans_key,
      trans_amt |-> safe_convert_to_float(r.trans_amt, 0),
      trans_datetime |-> dt,
      trans_date |-> IF dt # NaT THEN dt \div HoursPerDay ELSE NaT,
      hour |-> IF dt # NaT THEN dt % HoursPerDay ELSE HourNaN,
      fund_usage |-> r.fund_usage,
      ip_addr |-> r.ip_addr,
      mac_addr |-> r.mac_addr,
      counterparty_name |-> r.counterparty_name,
      income_pay_flag |-> r.income_pay_flag]

\* the rows of the chunk that survive, given the keys seen in earlier chunks
new_rows(rows, seen) ==
  LET mask(r) == case_trans_key(r) \notin seen
  IN SelectSeq(rows, mask)

\* a _process_chunk that forgets to update the seen keys
process_chunk_no_update(chunk_df, seen) ==
  LET cleaned == [i \in 1..Len(chunk_df) |-> clean_row(chunk_df[i])]
      notna(r) == r.trans_key # NaN /\ r.case_id # NaN
      dropna == SelectSeq(cleaned, notna)
  IN [rows |-> new_rows(dropna, seen), seen |-> seen]

\* a _process_chunk without dropna(subset=['trans_key', 'case_id'])
process_chunk_keep_missing(chunk_df, seen) ==
  LET cleaned == [i \in 1..Len(chunk_df) |-> clean_row(chunk_df[i])]
  IN IF Len(cleaned) > 0
     THEN LET kept == new_rows(cleaned, seen)
          IN [rows |-> kept,
              seen |-> seen \cup {case_trans_key(kept[i]) : i \in 1..Len(kept)}]
     ELSE [rows |-> cleaned, seen |-> seen]

\* _process_chunk: the surviving rows and the updated seen_case_trans_keys
process_chunk(chunk_df, seen) ==
  LET cleaned == [i \in 1..Len(chunk_df) |-> clean_row(chunk_df[i])]
      notna(r) == r.trans_key # NaN /\ r.case_id # NaN
      dropna == SelectSeq(cleaned, notna)
  IN IF Len(dropna) > 0
     THEN LET kept == new_rows(dropna, seen)
          IN [rows |-> kept,
              seen |-> seen \cup {case_trans_key(kept[i]) : i \in 1..Len(kept)}]
     ELSE [rows |-> dropna, seen |-> seen]

----------------------------------------------------------------------------
(* Aggregation Pipeline: accumulation *)

\* the case ids of the model in the order groupby('case_id') yields them
SortedCaseIds == <<"a", "a_b">>

\* processed_chunk.groupby('case_id'): one (case_id, group) per case id of
\* the chunk, in sorted order, each group keeping the rows' order
groupby_case_id(rows) ==
  LET has(c) == \E i \in 1..Len(rows) : rows[i].case_id = c
      present == SelectSeq(SortedCaseIds, has)
      group_of(c) == LET is(r) == r.case_id = c IN SelectSeq(rows, is)
  IN [j \in 1..Len(present) |->
        [case_id |-> present[j], group |-> group_of(present[j])]]

\* all_groups is a dict: a sequence of entries in insertion order
has_key(d, c) == \E i \in 1..Len(d) : d[i].case_id = c

\* a loop body that replaces the accumulated group instead of extending it
merge_group_overwrite(groups, g) ==
  IF has_key(groups, g.case_id)
  THEN [i \in 1..Len(groups) |->
          IF groups[i].case_id = g.case_id THEN g ELSE groups[i]]
  ELSE Append(groups, g)

\* the body of the loop over the groups of one chunk
merge_group(groups, g) ==
  IF has_key(groups, g.case_id)
  THEN [i \in 1..Len(groups) |->
          IF groups[i].case_id = g.case_id
          THEN [case_id |-> g.case_id, group |-> groups[i].group \o g.group]
          ELSE groups[i]]
  ELSE Append(groups, g)

RECURSIVE merge_groups(_, _)
merge_groups(groups, new) ==
  IF new = <<>>
  THEN groups
  ELSE merge_groups(merge_group(groups, Head(new)), Tail(new))

\* the rows read_csv yields as chunk number idx + 1
chunk_at(rows, size, idx) ==
  SubSeq(rows, idx * size + 1,
         IF (idx + 1) * size < Len(rows) THEN (idx + 1) * size ELSE Len(rows))

\* the columns of a chunk after rename(columns=self.column_mapping), as far
\* as the pipeline asks for them
chunk_columns ==
  {"case_id", "main_cust_name", "trans_key", "trans_amt", "trans_datetime",
   "fund_usage", "ip_addr", "mac_addr", "counterparty_name"}

required_columns == {"case_id", "main_cust_name", "trans_amt", "trans_datetime"}

missing_columns == required_columns \ chunk_columns

----------------------------------------------------------------------------
(* Case Aggregator *)

\* num / den > tenths / 10 (den > 0)
ratio_gt(num, den, tenths) == num * 10 > tenths * den

RECURSIVE seq_sum(_)
seq_sum(xs) == IF xs = <<>> THEN 0 ELSE Head(xs) + seq_sum(Tail(xs))

\* Series.dropna().nunique() of a text column
nunique(column) ==
  Cardinality({column[i] : i \in 1..Len(column)} \ {NaN})

\* g['ip_addr'] and g['mac_addr']
ip_addr_of(g) == [i \in 1..Len(g) |-> g[i].ip_addr]
mac_addr_of(g) == [i \in 1..Len(g) |-> g[i].mac_addr]

\* the keyword fragments a fund_usage text contains: "chongzhi" stands for
\* the text '充值', "youxi" for '游戏', "shouxufei" for '手续费', "gongzi"
\* for '工资' (no keyword), "chongzhi shouxufei" for a text with both
fragments(text) ==
  CASE text = "chongzhi" -> {"chongzhi"}
    [] text = "youxi" -> {"youxi"}
    [] text = "shouxufei" -> {"shouxufei"}
    [] text = "chongzhi shouxufei" -> {"chongzhi", "shouxufei"}
    [] OTHER -> {}

\* Series.fillna('') on one cell
fillna(text) == IF text = NaN THEN "" ELSE text

\* str.contains('k1|k2|...') on one cell
str_contains(text, pattern) == fragments(text) \cap pattern # {}

\* '充值|返现|游戏|彩票'
suspicious_usage_pattern == {"chongzhi", "fanxian", "youxi", "caipiao"}
\* '充值|返现'
gambling_usage_pattern == {"chongzhi", "fanxian"}
\* ['扣费', '手续费', '服务费', '系统', '自动', '代扣', '短信费', '管理费', '工本费']
low_value_keywords ==
  {"koufei", "shouxufei", "fuwufei", "xitong", "zidong", "daikou",
   "duanxinfei", "guanlifei", "gongbenfei"}

any_usage(g, pattern) ==
  \E i \in 1..Len(g) : str_contains(fillna(g[i].fund_usage), pattern)

\* a dropna that fills the missing hours with 0 instead of dropping them
valid_hours_filled(g) ==
  [i \in 1..Len(g) |-> IF g[i].hour = HourNaN THEN 0 ELSE g[i].hour]

\* valid_hours = g['hour'].dropna()
valid_hours(g) ==
  LET notna(r) == r.hour # HourNaN
      rows == SelectSeq(g, notna)
  IN [i \in 1..Len(rows) |-> rows[i].hour]

is_night(h) == h >= NightFrom \/ h <= NightUntil

night_count(g) ==
  LET vh == valid_hours(g)
  IN Cardinality({i \in 1..Len(vh) : is_night(vh[i])})

\* valid_trans_amt: _process_chunk left a float in every cell
valid_trans_amt(g) == [i \in 1..Len(g) |-> g[i].trans_amt]

\* avg_trans_amt < 10 in place of <= 10
avg_is_small_strict(g) ==
  LET amts == valid_trans_amt(g)
  IN IF Len(amts) > 0
     THEN seq_sum(amts) < SmallAmtMax * Cent * Len(amts)
     ELSE TRUE

\* avg_trans_amt <= 10, the mean being 0.0 over no amount
avg_is_small(g) ==
  LET amts == valid_trans_amt(g)
  IN IF Len(amts) > 0
     THEN seq_sum(amts) <= SmallAmtMax * Cent * Len(amts)
     ELSE TRUE

night_ratio_high(g) ==
  LET vh == valid_hours(g)
  IN Len(vh) > 0 /\ ratio_gt(night_count(g), Len(vh), NightRatioTenths)

is_round(amt) ==
  \/ amt % (100 * Cent) = 0
  \/ amt % (1000 * Cent) = 0
  \/ amt % (10000 * Cent) = 0

\* the keywords set as it stands when result_dict is built
keywords(g) ==
  LET amts == valid_trans_amt(g)
      integer_count == Cardinality({i \in 1..Len(amts) : amts[i] % Cent = 0})
      round_amount_count == Cardinality({i \in 1..Len(amts) : is_round(amts[i])})
      nan_counterparty_count ==
        Cardinality({i \in 1..Len(g) : g[i].counterparty_name = NaN})
  IN (IF avg_is_small(g) THEN {"small_amount"} ELSE {})
     \cup (IF Len(g) >= HighFreqMin THEN {"high_frequency"} ELSE {})
     \cup (IF night_ratio_high(g) THEN {"night"} ELSE {})
     \cup (IF Len(amts) > 0 /\ ratio_gt(integer_count, Len(amts), IntegerRatioTenths)
           THEN {"integer_amount_high"} ELSE {})
     \cup (IF Len(amts) > 0 /\ ratio_gt(round_amount_count, Len(amts), RoundRatioTenths)
           THEN {"round_amount"} ELSE {})
     \cup (IF nunique(ip_addr_of(g)) > 1 THEN {"multi_IP"} ELSE {})
     \cup (IF nunique(mac_addr_of(g)) > 1 THEN {"multi_device"} ELSE {})
     \cup (IF ratio_gt(nan_counterparty_count, Len(g), AnonymousRatioTenths)
           THEN {"anonymous"} ELSE {})
     \cup (IF any_usage(g, suspicious_usage_pattern)
           THEN {"suspicious_usage"} ELSE {})

\* The keywords of the program, named in ASCII, in the order sorted() puts
\* the originals: 'IP分散', '匿名', '可疑用途', '多IP', '多设备', '夜间',
\* '小额', '整数金额高', '整额交易', '设备分散', '高频'
SortedKeywords ==
  <<"IP_dispersed", "anonymous", "suspicious_usage", "multi_IP",
    "multi_device", "night", "small_amount", "integer_amount_high",
    "round_amount", "device_dispersed", "high_frequency">>

\* ','.join(sorted(keywords)), as the sequence of the joined keywords
render_keywords(kw) ==
  LET in_kw(k) == k \in kw IN SelectSeq(SortedKeywords, in_kw)

\* DataFrame.nsmallest(n, 'trans_datetime'): the n rows of smallest
\* timestamp in ascending order, equal timestamps in the rows' order
RECURSIVE nsmallest(_, _)
nsmallest(n, rows) ==
  IF n = 0 \/ rows = <<>>
  THEN <<>>
  ELSE LET i == CHOOSE i \in 1..Len(rows) :
                  \A j \in 1..Len(rows) :
                     \/ rows[j].trans_datetime > rows[i].trans_datetime
                     \/ rows[j].trans_datetime = rows[i].trans_datetime /\ j >= i
           rest == SubSeq(rows, 1, i - 1) \o SubSeq(rows, i + 1, Len(rows))
       IN <<rows[i]>> \o nsmallest(n - 1, rest)

\* DataFrame.nlargest(n, 'trans_datetime'): descending, ties in the rows' order
RECURSIVE nlargest(_, _)
nlargest(n, rows) ==
  IF n = 0 \/ rows = <<>>
  THEN <<>>
  ELSE LET i == CHOOSE i \in 1..Len(rows) :
                  \A j \in 1..Len(rows) :
                     \/ rows[j].trans_datetime < rows[i].trans_datetime
                     \/ rows[j].trans_datetime = rows[i].trans_datetime /\ j >= i
           rest == SubSeq(rows, 1, i - 1) \o SubSeq(rows, i + 1, Len(rows))
       IN <<rows[i]>> \o nlargest(n - 1, rest)

\* drop_duplicates(subset=['trans_datetime']): the first row of each timestamp
drop_duplicates(rows) ==
  LET idx == {i \in 1..Len(rows) :
                \A j \in 1..(i - 1) : rows[j].trans_datetime # rows[i].trans_datetime}
      RECURSIVE pick(_)
      pick(i) ==
        IF i > Len(rows)
        THEN <<>>
        ELSE (IF i \in idx THEN <<rows[i]>> ELSE <<>>) \o pick(i + 1)
  IN pick(1)

\* one row more than the program takes at each end
sample_take_four(n) == IF SampleEachEnd + 1 < n THEN SampleEachEnd + 1 ELSE n

\* how many rows each of nsmallest and nlargest is asked for
sample_take(n) == IF SampleEachEnd < n THEN SampleEachEnd ELSE n

\* _safe_format_date(trans_date, '%Y-%m-%d', '')
format_date(d) == IF d = NaT THEN "" ELSE "day " \o ToString(d)

\* _safe_format_date(trans_datetime, '%H:%M', '')
format_time(ts) ==
  IF ts = NaT THEN "" ELSE ToString(ts % HoursPerDay) \o ":00"

\* one entry of sample_trx; TR_AMT is _safe_convert_to_float of a float,
\* which is that float
sample_entry(trx) ==
  [TR_DT |-> format_date(trx.trans_date),
   TR_TM |-> format_time(trx.trans_datetime),
   TR_AMT |-> trx.trans_amt]

\* a filter without the fallback to the unfiltered rows
valid_trx_no_fallback(g) ==
  LET keep(r) == ~str_contains(fillna(r.fund_usage), low_value_keywords)
  IN SelectSeq(g, keep)

\* the rows the sample is drawn from: those whose fund_usage has no
\* low-value keyword, or all rows when there is none
valid_trx(g) ==
  LET keep(r) == ~str_contains(fillna(r.fund_usage), low_value_keywords)
      filtered == SelectSeq(g, keep)
  IN IF Len(filtered) = 0 THEN g ELSE filtered

sample_trx(g) ==
  LET has_dt(r) == r.trans_datetime # NaT
      valid_trx_with_dt == SelectSeq(valid_trx(g), has_dt)
      n == sample_take(Len(valid_trx_with_dt))
      first_trx == nsmallest(n, valid_trx_with_dt)
      last_trx == nlargest(n, valid_trx_with_dt)
      combined == drop_duplicates(first_trx \o last_trx)
  IN [i \in 1..Len(combined) |-> sample_entry(combined[i])]

\* pd.api.types.is_string_dtype of an object column read with dtype=str:
\* every cell is a text (pandas 2; older versions answer True for every
\* object column, which leaves the missing cells to _safe_convert_to_str
\* and the buckets as they are here)
is_string_dtype(column) == \A i \in 1..Len(column) : column[i] # NaN

\* str(x) of one cell
astype_str(x) == IF x = NaN THEN "nan" ELSE x

\* _safe_convert_to_str(value, default) of a text cell
safe_convert_to_str(value, default) == IF value = NaN THEN default ELSE value

\* a flag compared as it is read
strip_none(text) == text

\* str.strip() on the flags of the model
strip(text) ==
  CASE text = " 1 " -> "1"
    [] text = "C " -> "C"
    [] OTHER -> text

\* ['1', '01', '借', 'debit', 'D'] and ['2', '02', '贷', 'credit', 'C']
debit_flags == {"1", "01", "jie", "debit", "D"}
credit_flags == {"2", "02", "dai", "credit", "C"}

\* the flag series of lines 252-253 and 390
flag_of(g) ==
  LET column == [i \in 1..Len(g) |-> g[i].income_pay_flag]
      as_text == IF is_string_dtype(column)
                 THEN column
                 ELSE [i \in 1..Len(g) |-> astype_str(column[i])]
  IN [i \in 1..Len(g) |-> strip(safe_convert_to_str(as_text[i], ""))]

\* flag.isin(flags) as the set of the rows it selects
flag_mask(g, flags) ==
  LET flag == flag_of(g) IN {i \in 1..Len(g) : flag[i] \in flags}

\* float(g[mask]['trans_amt'].sum()) if mask.any() else 0.0
masked_amt(g, mask) ==
  seq_sum([i \in 1..Len(g) |-> IF i \in mask THEN g[i].trans_amt ELSE 0])

\* the network-gambling pattern
is_network_gambling(g) ==
  /\ "fund_usage" \in chunk_columns
  /\ Len(g) >= HighFreqMin
  /\ avg_is_small(g)
  /\ night_ratio_high(g)
  /\ any_usage(g, gambling_usage_pattern)

is_ip_suspicious(g) ==
  LET unique_ips == nunique(ip_addr_of(g))
      total_trans == Len(g)
  IN /\ unique_ips > 0
     /\ total_trans > 0
     /\ ratio_gt(unique_ips, total_trans, IpRatioTenths)

\* the mac test with the ip threshold
is_mac_suspicious_ip_threshold(g) ==
  LET unique_macs == nunique(mac_addr_of(g))
      total_trans == Len(g)
  IN /\ unique_macs > 0
     /\ total_trans > 0
     /\ ratio_gt(unique_macs, total_trans, IpRatioTenths)

is_mac_suspicious(g) ==
  LET unique_macs == nunique(mac_addr_of(g))
      total_trans == Len(g)
  IN /\ unique_macs > 0
     /\ total_trans > 0
     /\ ratio_gt(unique_macs, total_trans, MacRatioTenths)

\* what the later keywords.add('IP分散') / keywords.add('设备分散') leave in
\* the local set, which nothing reads after result_dict was built
keywords_at_end(g) ==
  keywords(g)
  \cup (IF is_ip_suspicious(g) THEN {"IP_dispersed"} ELSE {})
  \cup (IF is_mac_suspicious(g) THEN {"device_dispersed"} ELSE {})

\* the suspicion flag: "yes" is '是', "no" is '否'
suspected(g) ==
  IF is_network_gambling(g) \/ is_ip_suspicious(g) \/ is_mac_suspicious(g)
  THEN "yes"
  ELSE "no"

\* one pass of the loop body of _aggregate_case_data that does not raise:
\* result_dict, with risk_keywords rendered when the dict is built
aggregate_case(case_id, g) ==
  [case_id |-> case_id,
   total_trans_amt |-> seq_sum(valid_trans_amt(g)),
   trans_count |-> Len(g),
   night_trans_count |-> night_count(g),
   risk_keywords |-> render_keywords(keywords(g)),
   is_network_gambling_suspected |-> suspected(g),
   sample_trx_list |-> sample_trx(g),
   debit_count |-> Cardinality(flag_mask(g, debit_flags)),
   debit_amt |-> masked_amt(g, flag_mask(g, debit_flags)),
   credit_count |-> Cardinality(flag_mask(g, credit_flags)),
   credit_amt |-> masked_amt(g, flag_mask(g, credit_flags))]

----------------------------------------------------------------------------
(* Input files of one case *)

\* Files of one case, whose rows have distinct transaction keys.
\* Family 4: the hours of the rows.  counts[j] rows carry HourChoices[j] as
\* their hour, on a day of their own, and counts[Len(HourChoices) + 1] rows
\* have no timestamp.
HourChoices == <<0, 6, 7, 22, 23>>

MaxHourRows == 6

\* the slot of HourChoices row i falls into, Len(HourChoices) + 1 for the
\* rows without timestamp
RECURSIVE hour_slot(_, _, _)
hour_slot(counts, i, j) ==
  IF j > Len(HourChoices) \/ i <= counts[j]
  THEN j
  ELSE hour_slot(counts, i - counts[j], j + 1)

HourCase(counts) ==
  [i \in 1..seq_sum(counts) |->
     LET j == hour_slot(counts, i, 1)
     IN Row("a", TransKey(i), "200",
            IF j > Len(HourChoices) THEN RawNaT ELSE RawTime(i, HourChoices[j]),
            "gongzi", NaN, NaN)]

HourInputs ==
  {HourCase(counts) :
     counts \in {c \in [1..(Len(HourChoices) + 1) -> 0..MaxHourRows] :
                   seq_sum(c) \in 1..MaxHourRows}}

\* Family 5: the purposes and timestamps of the rows.  Short files take
\* every combination, row by row, of an ordinary, a low-value or a missing
\* purpose with one of two timestamps or none.
MaxSampleRows == 3

SampleRows(i) ==
  {Row("a", TransKey(i), "200", dt, usage, NaN, NaN) :
     dt \in {RawTime(1, 12), RawTime(2, 12), RawNaT},
     usage \in {"gongzi", "shouxufei", NaN}}

\* Long files have n rows whose days are out of order; every k-th row has a
\* low-value purpose (none for k = 0, all for k = 1), the rows share their
\* day in pairs when `ties`, and the last row has no timestamp when `nat`.
MaxLongRows == 8

LongCase(n, k, ties, nat) ==
  [i \in 1..n |->
     Row("a", TransKey(i), "200",
         IF nat /\ i = n
         THEN RawNaT
         ELSE LET day == (i * 5) % 11
              IN RawTime(IF ties THEN day \div 2 ELSE day, 12),
         IF k > 0 /\ i % k = 0 THEN "shouxufei" ELSE "gongzi",
         NaN, NaN)]

SampleInputs ==
  UNION {SeqsOver([i \in 1..MaxSampleRows |-> SampleRows(i)], n) :
           n \in 1..MaxSampleRows}
  \cup {LongCase(n, k, ties, nat) :
          n \in 5..MaxLongRows, k \in 0..MaxLongRows, ties \in BOOLEAN, nat \in BOOLEAN}

\* Family 6: the income_pay_flag of the rows: every flag of the debit and of
\* the credit list ("jie" stands for '借', "dai" for '贷'), flags with blanks
\* around them, flags in another case, other flags and the missing flag.
MaxFlagRows == 2

FlagChoices ==
  {"1", "01", "jie", "debit", "D", "2", "02", "dai", "credit", "C",
   " 1 ", "C ", "d", "DEBIT", "3", NaN}

FlagRows(i) ==
  {[Row("a", TransKey(i), <<"5", "200", "10.01">>[((i - 1) % 3) + 1],
        RawTime(i, 12), "gongzi", NaN, NaN)
      EXCEPT !.income_pay_flag = flag] : flag \in FlagChoices}

FlagInputs ==
  UNION {SeqsOver([i \in 1..MaxFlagRows |-> FlagRows(i)], n) :
           n \in 1..MaxFlagRows}

CaseInputs == HourInputs \cup SampleInputs \cup FlagInputs

----------------------------------------------------------------------------
(* Aggregation Pipeline: one service instance, preprocess_csv run after run *)

VARIABLES
  input,                 \* the rows of the input file (bad lines skipped)
  chunk_size,            \* self.chunk_size
  pc,                    \* "idle", "reading" (chunk loop), "aggregating"
  chunk_idx,             \* chunks processed by the current run
  seen_case_trans_keys,  \* self.seen_case_trans_keys
  all_groups,            \* the Case Accumulators, in insertion order
  agg_idx,               \* entries of all_groups the aggregation loop has passed
  all_results,           \* the result rows, in insertion order
  result,                \* what the last finished run returned
  written,               \* the rows the current run wrote to output_csv_path
  survived,              \* history: the rows _process_chunk returned in this run
  aggregated,            \* history: the case ids handed to _aggregate_case_data
  raised,                \* history: the case ids whose aggregation raised
  request,               \* the arguments of the last process_csv_for_dify call
  call,                  \* the last call of a Value Normalizer function
  executions,            \* the task executions, by the order they were started
  sessions,              \* the database sessions created so far
  task_execution_status, \* the status table of the API
  csv_rows,              \* the number of rows of the batch task's CSV file
  result_table,          \* whether the batch task names a result_table
  batch_pc,              \* "idle", "rows" (row loop), "done"
  row_idx,               \* rows of the CSV file the row loop has passed
  http_calls,            \* history: the requests.post calls, in order
  dify_call_results      \* the DifyCallResult records committed

pipeline_vars ==
  <<input, chunk_size, pc, chunk_idx, seen_case_trans_keys, all_groups,
    agg_idx, all_results, result, written, survived, aggregated, raised,
    request>>

normalizer_vars == <<call>>

scheduler_vars == <<executions, sessions, task_execution_status>>

batch_vars ==
  <<csv_rows, result_table, batch_pc, row_idx, http_calls, dify_call_results>>

vars == <<pipeline_vars, normalizer_vars, scheduler_vars, batch_vars>>

\* the return values of preprocess_csv; message "done" is '预处理完成...',
\* "empty" is '没有成功处理任何案例...', "error" is '预处理失败: ...'
NoResult ==
  [success |-> FALSE, message |-> "none", processed_count |-> 0,
   output_file |-> "null"]

SuccessResult(n) ==
  [success |-> TRUE, message |-> "done", processed_count |-> n,
   output_file |-> "output_csv_path"]

EmptyResult ==
  [success |-> FALSE, message |-> "empty", processed_count |-> 0,
   output_file |-> "null"]

ErrorResult ==
  [success |-> FALSE, message |-> "error", processed_count |-> 0,
   output_file |-> "null"]

\* a finally clause that leaves the seen keys as they are
finally_keep(seen) == seen

\* the finally clause: self.seen_case_trans_keys = set()
finally_reset(seen) == {}

\* a chunk loop that stops one chunk early
more_chunks_short(rows, size, idx) == (idx + 1) * size < Len(rows)

\* the for loop over chunk_iter has chunks left
more_chunks(rows, size, idx) == idx * size < Len(rows)

\* all_results[case_id] = chunk_results[0]
put_result(results, r) ==
  IF has_key(results, r.case_id)
  THEN [i \in 1..Len(results) |->
          IF results[i].case_id = r.case_id THEN r ELSE results[i]]
  ELSE Append(results, r)

\* the keys of result_dict in insertion order: the columns of
\* pd.DataFrame(list(all_results.values()))
result_columns ==
  <<"main_cust_name", "main_cust_id", "main_cust_industry", "main_cust_gender",
    "main_cust_open_date", "main_cust_addr", "main_cust_phone_number",
    "id_type", "id_number", "total_trans_amt", "trans_count", "avg_trans_amt",
    "max_trans_amt", "first_trans_date", "last_trans_date",
    "report_start_date", "report_end_date", "night_trans_count",
    "risk_keywords", "counterparty_sample", "model_name", "highest_score",
    "features", "is_network_gambling_suspected", "sample_trx_list",
    "top_opposing_areas", "main_tnx_channels", "tr_org", "debit_count",
    "debit_amt", "credit_count", "credit_amt", "ipv6_addr", "ip_addr",
    "mac_addr", "case_id">>

expected_columns ==
  <<"case_id", "main_cust_name", "main_cust_id", "main_cust_industry",
    "main_cust_gender", "main_cust_open_date", "main_cust_addr",
    "main_cust_phone_number", "id_type", "id_number", "total_trans_amt",
    "trans_count", "avg_trans_amt", "max_trans_amt", "first_trans_date",
    "last_trans_date", "report_start_date", "report_end_date",
    "night_trans_count", "risk_keywords", "counterparty_sample",
    "top_opposing_areas", "main_tnx_channels", "sample_trx_list",
    "debit_count", "debit_amt", "credit_count", "credit_amt", "model_name",
    "is_network_gambling_suspected", "tr_org", "features", "highest_score",
    "ipv6_addr", "ip_addr", "mac_addr", "integer_trans_info">>

\* the columns the loop `if col not in result.columns: result[col] = ''`
\* appends to the frame, in the order it appends them
missing_expected(columns) ==
  LET absent(c) == \A i \in 1..Len(columns) : columns[i] # c
  IN SelectSeq(expected_columns, absent)

\* a frame left in the order the columns were created
select_columns_unordered(columns) == columns

\* result = result[expected_columns]
select_columns(columns) == expected_columns

\* the frame has every expected column, so result[expected_columns] does
\* not raise KeyError
has_expected(columns) ==
  \A i \in 1..Len(expected_columns) :
     \E j \in 1..Len(columns) : columns[j] = expected_columns[i]

\* one row of the frame that to_csv writes: `columns` is the order of its
\* cells; the cells the model computes are those of aggregate_case, the cells
\* of the columns the loop appended are '', the other computed columns are
\* left out of the model
output_row(r) ==
  LET appended == missing_expected(result_columns)
      frame == result_columns \o appended
  IN [c \in {appended[i] : i \in 1..Len(appended)} |-> ""]
     @@ [columns |-> select_columns(frame)]
     @@ r

\* Python's None among the texts of the model
None == "<None>"

\* the arguments of process_csv_for_dify as the API hands them over (absent
\* JSON keys are None); csv_file_path names the file whose rows are `input`,
\* a csv_content that is used has the rows of `input`
Requests ==
  [csv_file_path : {None, "input.csv"}, csv_content : {None, "", "csv text"}]

\* bool(x) of an argument
truthy(x) == x # None /\ x # ""

\* no Value Normalizer function called yet
NoCall == [fn |-> "none", value |-> "", default |-> 0, ret |-> 0]

\* the Value Normalizer at rest
NormalizerIdle == call = NoCall

\* no task fired or triggered yet
SchedulerIdle ==
  /\ executions = <<>>
  /\ sessions = <<>>
  /\ task_execution_status = <<>>

\* no batch task started yet
BatchIdle ==
  /\ csv_rows = 0
  /\ result_table = FALSE
  /\ batch_pc = "idle"
  /\ row_idx = 0
  /\ http_calls = <<>>
  /\ dify_call_results = <<>>

\* __init__, for every input file and chunk size of the model
Init ==
  /\ NormalizerIdle
  /\ SchedulerIdle
  /\ BatchIdle
  /\ request = [csv_file_path |-> None, csv_content |-> None]
  /\ input \in Inputs
  /\ chunk_size \in ChunkSizes
  /\ pc = "idle"
  /\ chunk_idx = 0
  /\ seen_case_trans_keys = {}
  /\ all_groups = <<>>
  /\ agg_idx = 0
  /\ all_results = <<>>
  /\ result = NoResult
  /\ written = <<>>
  /\ survived = <<>>
  /\ aggregated = <<>>
  /\ raised = {}

\* the return value of the else branch of process_csv_for_dify; message
\* "usage" is '必须提供csv_file_path或csv_content参数'
UsageResult ==
  [success |-> FALSE, message |-> "usage", processed_count |-> 0,
   output_file |-> "null"]

\* the return value of the except clause of process_csv_content; message
\* "content_error" is '处理CSV内容失败: ...'
ContentErrorResult ==
  [success |-> FALSE, message |-> "content_error", processed_count |-> 0,
   output_file |-> "null"]

\* a process_csv_for_dify that takes every csv_content that is not None for
\* content: the empty text is written to the temporary file and read
RejectRequestNoneOnly ==
  /\ pc = "idle"
  /\ \E req \in Requests :
       /\ ~truthy(req.csv_file_path)
       /\ ~truthy(req.csv_content)
       /\ request' = req
       /\ IF req.csv_content = None
          THEN pc' = "idle" /\ result' = UsageResult
          ELSE pc' = "reading" /\ result' = NoResult
  /\ all_groups' = <<>>
  /\ chunk_idx' = 0
  /\ seen_case_trans_keys' = {}
  /\ agg_idx' = 0
  /\ all_results' = <<>>
  /\ written' = <<>>
  /\ survived' = <<>>
  /\ aggregated' = <<>>
  /\ raised' = {}
  /\ UNCHANGED <<input, chunk_size>>
  /\ UNCHANGED <<normalizer_vars, scheduler_vars, batch_vars>>

\* process_csv_for_dify is called with neither a file path nor content: a
\* service is made, nothing is run and the usage failure is returned
RejectRequest ==
  /\ pc = "idle"
  /\ \E req \in Requests :
       /\ ~truthy(req.csv_file_path)
       /\ ~truthy(req.csv_content)
       /\ request' = req
  /\ pc' = "idle"
  /\ result' = UsageResult
  /\ all_groups' = <<>>
  /\ chunk_idx' = 0
  /\ seen_case_trans_keys' = {}
  /\ agg_idx' = 0
  /\ all_results' = <<>>
  /\ written' = <<>>
  /\ survived' = <<>>
  /\ aggregated' = <<>>
  /\ raised' = {}
  /\ UNCHANGED <<input, chunk_size>>
  /\ UNCHANGED <<normalizer_vars, scheduler_vars, batch_vars>>

\* process_csv_for_dify is called with content and no file path, and
\* process_csv_content cannot write the temporary file: its except clause
\* returns the failure, preprocess_csv is not called
ContentFail ==
  /\ pc = "idle"
  /\ \E req \in Requests :
       /\ ~truthy(req.csv_file_path)
       /\ truthy(req.csv_content)
       /\ request' = req
  /\ pc' = "idle"
  /\ result' = ContentErrorResult
  /\ all_groups' = <<>>
  /\ chunk_idx' = 0
  /\ seen_case_trans_keys' = {}
  /\ agg_idx' = 0
  /\ all_results' = <<>>
  /\ written' = <<>>
  /\ survived' = <<>>
  /\ aggregated' = <<>>
  /\ raised' = {}
  /\ UNCHANGED <<input, chunk_size>>
  /\ UNCHANGED <<normalizer_vars, scheduler_vars, batch_vars>>

\* process_csv_for_dify is called with a file path, or with content only
\* (which process_csv_content writes to a temporary file): preprocess_csv is
\* called on the file, the locals are initialised, the seen keys reset and
\* the chunk iterator opened
Dispatch ==
  /\ pc = "idle"
  /\ \E req \in Requests :
       /\ truthy(req.csv_file_path) \/ truthy(req.csv_content)
       /\ request' = req
  /\ pc' = "reading"
  /\ all_groups' = <<>>
  /\ chunk_idx' = 0
  /\ seen_case_trans_keys' = {}
  /\ agg_idx' = 0
  /\ all_results' = <<>>
  /\ result' = NoResult
  /\ written' = <<>>
  /\ survived' = <<>>
  /\ aggregated' = <<>>
  /\ raised' = {}
  /\ UNCHANGED <<input, chunk_size>>
  /\ UNCHANGED <<normalizer_vars, scheduler_vars, batch_vars>>

\* preprocess_csv is called on the file: the locals are initialised, the seen
\* keys reset and the chunk iterator opened
StartRun ==
  /\ pc = "idle"
  /\ pc' = "reading"
  /\ all_groups' = <<>>
  /\ chunk_idx' = 0
  /\ seen_case_trans_keys' = {}
  /\ agg_idx' = 0
  /\ all_results' = <<>>
  /\ result' = NoResult
  /\ written' = <<>>
  /\ survived' = <<>>
  /\ aggregated' = <<>>
  /\ raised' = {}
  /\ UNCHANGED <<request, input, chunk_size>>
  /\ UNCHANGED <<normalizer_vars, scheduler_vars, batch_vars>>

\* one pass of the chunk loop: required columns checked, the chunk
\* processed, its groups merged into all_groups
ReadChunk ==
  /\ pc = "reading"
  /\ more_chunks(input, chunk_size, chunk_idx)
  /\ IF missing_columns # {}
     THEN /\ pc' = "idle"
          /\ result' = ErrorResult
          /\ seen_case_trans_keys' = finally_reset(seen_case_trans_keys)
          /\ UNCHANGED <<chunk_idx, all_groups, survived>>
     ELSE LET processed ==
                process_chunk(chunk_at(input, chunk_size, chunk_idx),
                              seen_case_trans_keys)
          IN /\ seen_case_trans_keys' = processed.seen
             /\ all_groups' = merge_groups(all_groups, groupby_case_id(processed.rows))
             /\ survived' = survived \o processed.rows
             /\ chunk_idx' = chunk_idx + 1
             /\ UNCHANGED <<pc, result>>
  /\ UNCHANGED <<request, input, chunk_size, agg_idx, all_results, written, aggregated, raised>>
  /\ UNCHANGED <<normalizer_vars, scheduler_vars, batch_vars>>

\* a preprocess_csv without its except clause: the exception of read_csv or
\* of the chunk iterator reaches the caller and no result is returned
ReadFailPropagates ==
  /\ pc = "reading"
  /\ more_chunks(input, chunk_size, chunk_idx)
  /\ pc' = "raised"
  /\ seen_case_trans_keys' = finally_reset(seen_case_trans_keys)
  /\ UNCHANGED <<request, input, chunk_size, chunk_idx, all_groups, agg_idx, all_results,
                 result, written, survived, aggregated, raised>>
  /\ UNCHANGED <<normalizer_vars, scheduler_vars, batch_vars>>

\* read_csv or the chunk iterator raises (unreadable source): the except
\* clause returns the failure, the finally clause resets the seen keys
ReadFail ==
  /\ pc = "reading"
  /\ more_chunks(input, chunk_size, chunk_idx)
  /\ pc' = "idle"
  /\ result' = ErrorResult
  /\ seen_case_trans_keys' = finally_reset(seen_case_trans_keys)
  /\ UNCHANGED <<request, input, chunk_size, chunk_idx, all_groups, agg_idx, all_results,
                 written, survived, aggregated, raised>>
  /\ UNCHANGED <<normalizer_vars, scheduler_vars, batch_vars>>

\* the chunk iterator is exhausted: the aggregation loop starts
EndOfInput ==
  /\ pc = "reading"
  /\ ~more_chunks(input, chunk_size, chunk_idx)
  /\ pc' = "aggregating"
  /\ all_results' = <<>>
  /\ agg_idx' = 0
  /\ UNCHANGED <<request, input, chunk_size, chunk_idx, seen_case_trans_keys, all_groups,
                 result, written, survived, aggregated, raised>>
  /\ UNCHANGED <<normalizer_vars, scheduler_vars, batch_vars>>

\* an aggregation loop without the try/except of _aggregate_case_data: the
\* exception reaches the except clause of preprocess_csv
AggregateCaseUncaught ==
  /\ pc = "aggregating"
  /\ agg_idx < Len(all_groups)
  /\ LET entry == all_groups[agg_idx + 1]
     IN /\ aggregated' = Append(aggregated, entry.case_id)
        /\ \E raises \in BOOLEAN :
             IF raises
             THEN /\ raised' = raised \cup {entry.case_id}
                  /\ pc' = "idle"
                  /\ result' = ErrorResult
                  /\ seen_case_trans_keys' = finally_reset(seen_case_trans_keys)
                  /\ UNCHANGED all_results
             ELSE /\ all_results' =
                       put_result(all_results,
                                  aggregate_case(entry.case_id, entry.group))
                  /\ UNCHANGED <<raised, pc, result, seen_case_trans_keys>>
  /\ agg_idx' = agg_idx + 1
  /\ UNCHANGED <<request, input, chunk_size, chunk_idx, all_groups, written, survived>>
  /\ UNCHANGED <<normalizer_vars, scheduler_vars, batch_vars>>

\* one pass of the aggregation loop: _aggregate_case_data on one case; an
\* exception inside its try block is caught there and leaves no result
AggregateCase ==
  /\ pc = "aggregating"
  /\ agg_idx < Len(all_groups)
  /\ LET entry == all_groups[agg_idx + 1]
     IN /\ aggregated' = Append(aggregated, entry.case_id)
        /\ \E raises \in BOOLEAN :
             IF raises
             THEN /\ raised' = raised \cup {entry.case_id}
                  /\ UNCHANGED all_results
             ELSE /\ all_results' =
                       put_result(all_results,
                                  aggregate_case(entry.case_id, entry.group))
                  /\ UNCHANGED raised
  /\ agg_idx' = agg_idx + 1
  /\ UNCHANGED <<request, input, chunk_size, pc, chunk_idx, seen_case_trans_keys,
                 all_groups, result, written, survived>>
  /\ UNCHANGED <<normalizer_vars, scheduler_vars, batch_vars>>

\* a run that writes the empty frame and reports success
ReturnEmptyAsSuccess ==
  /\ pc = "aggregating"
  /\ agg_idx = Len(all_groups)
  /\ all_results = <<>>
  /\ pc' = "idle"
  /\ result' = SuccessResult(0)
  /\ seen_case_trans_keys' = finally_reset(seen_case_trans_keys)
  /\ UNCHANGED <<request, input, chunk_size, chunk_idx, all_groups, agg_idx, all_results,
                 written, survived, aggregated, raised>>
  /\ UNCHANGED <<normalizer_vars, scheduler_vars, batch_vars>>

\* no case was aggregated: the empty result is returned
ReturnEmpty ==
  /\ pc = "aggregating"
  /\ agg_idx = Len(all_groups)
  /\ all_results = <<>>
  /\ pc' = "idle"
  /\ result' = EmptyResult
  /\ seen_case_trans_keys' = finally_reset(seen_case_trans_keys)
  /\ UNCHANGED <<request, input, chunk_size, chunk_idx, all_groups, agg_idx, all_results,
                 written, survived, aggregated, raised>>
  /\ UNCHANGED <<normalizer_vars, scheduler_vars, batch_vars>>

\* the result rows are written (output_csv_path is taken to be writable) and
\* success is returned
ReturnSuccess ==
  /\ pc = "aggregating"
  /\ agg_idx = Len(all_groups)
  /\ all_results # <<>>
  /\ pc' = "idle"
  /\ IF has_expected(result_columns \o missing_expected(result_columns))
     THEN /\ written' = [i \in 1..Len(all_results) |-> output_row(all_results[i])]
          /\ result' = SuccessResult(Len(all_results))
     ELSE /\ written' = <<>>
          /\ result' = ErrorResult
  /\ seen_case_trans_keys' = finally_reset(seen_case_trans_keys)
  /\ UNCHANGED <<request, input, chunk_size, chunk_idx, all_groups, agg_idx, all_results,
                 survived, aggregated, raised>>
  /\ UNCHANGED <<normalizer_vars, scheduler_vars, batch_vars>>

Next ==
  \/ StartRun
  \/ ReadChunk
  \/ ReadFail
  \/ EndOfInput
  \/ AggregateCase
  \/ ReturnEmpty
  \/ ReturnSuccess

Spec == Init /\ [][Next]_vars

\* Bound of the entry point's inputs
MaxEntryRows == 2

\* the input files of the entry point's model
EntryInputs == UNION {SeqsOver(KeyRowsAt, n) : n \in 1..MaxEntryRows}

\* process_csv_for_dify, call after call: every call makes its own
\* CSVProcessingService(), whose chunk size is the configured one
InitEntry ==
  /\ NormalizerIdle
  /\ SchedulerIdle
  /\ BatchIdle
  /\ request = [csv_file_path |-> None, csv_content |-> None]
  /\ input \in EntryInputs
  /\ chunk_size = CSV_PROCESSING_CHUNK_SIZE
  /\ pc = "idle"
  /\ chunk_idx = 0
  /\ seen_case_trans_keys = {}
  /\ all_groups = <<>>
  /\ agg_idx = 0
  /\ all_results = <<>>
  /\ result = NoResult
  /\ written = <<>>
  /\ survived = <<>>
  /\ aggregated = <<>>
  /\ raised = {}

NextEntry ==
  \/ RejectRequest
  \/ ContentFail
  \/ Dispatch
  \/ ReadChunk
  \/ ReadFail
  \/ EndOfInput
  \/ AggregateCase
  \/ ReturnEmpty
  \/ ReturnSuccess

SpecEntry == InitEntry /\ [][NextEntry]_vars

\* preprocess_csv, run after run, on the files of one case with the
\* configured chunk size
InitCase ==
  /\ NormalizerIdle
  /\ SchedulerIdle
  /\ BatchIdle
  /\ request = [csv_file_path |-> None, csv_content |-> None]
  /\ input \in CaseInputs
  /\ chunk_size = CSV_PROCESSING_CHUNK_SIZE
  /\ pc = "idle"
  /\ chunk_idx = 0
  /\ seen_case_trans_keys = {}
  /\ all_groups = <<>>
  /\ agg_idx = 0
  /\ all_results = <<>>
  /\ result = NoResult
  /\ written = <<>>
  /\ survived = <<>>
  /\ aggregated = <<>>
  /\ raised = {}

SpecCase == InitCase /\ [][Next]_vars

----------------------------------------------------------------------------
(* Value Normalizer and Timestamp Parser, call after call *)

\* a service that was made and has run nothing
PipelineIdle ==
  /\ request = [csv_file_path |-> None, csv_content |-> None]
  /\ input = <<>>
  /\ chunk_size = CSV_PROCESSING_CHUNK_SIZE
  /\ pc = "idle"
  /\ chunk_idx = 0
  /\ seen_case_trans_keys = {}
  /\ all_groups = <<>>
  /\ agg_idx = 0
  /\ all_results = <<>>
  /\ result = NoResult
  /\ written = <<>>
  /\ survived = <<>>
  /\ aggregated = <<>>
  /\ raised = {}

InitNormalizer ==
  /\ PipelineIdle
  /\ SchedulerIdle
  /\ BatchIdle
  /\ NormalizerIdle

\* _safe_convert_to_float(value, default) is called and returns
CallSafeConvertToFloat ==
  /\ \E value \in FloatInputs, default \in FloatDefaults :
       call' = [fn |-> "safe_convert_to_float", value |-> value,
                default |-> default,
                ret |-> safe_convert_to_float(value, default)]
  /\ UNCHANGED <<pipeline_vars, scheduler_vars, batch_vars>>

\* convert_single_datetime(val) is called and returns
CallConvertSingleDatetime ==
  /\ \E val \in TimeInputs :
       call' = [fn |-> "convert_single_datetime", value |-> val,
                default |-> 0, ret |-> convert_single_datetime(val)]
  /\ UNCHANGED <<pipeline_vars, scheduler_vars, batch_vars>>

NextNormalizer ==
  \/ CallSafeConvertToFloat
  \/ CallConvertSingleDatetime

SpecNormalizer == InitNormalizer /\ [][NextNormalizer]_vars

----------------------------------------------------------------------------
(* Task executions: the scheduler's jobs and the API's background threads *)

\* Bound of the model: the executions started in one behaviour
MaxExecutions == 4

\* Settings.TASK_CONCURRENCY, which no module reads
TASK_CONCURRENCY == 3

\* the ids of the enabled tasks: each has a job task_<id> in the scheduler
\* and can be triggered through the API (the model has one task)
TaskIds == {1}

\* An execution is one call of execute_task_function in a thread of its own.
\* pc "spawned": the API's thread was started and has not run yet; "begin":
\* execute_task_function is entered; "lookup": the session is made, the task
\* is not yet fetched; "logic": the task was found, its logic has not run;
\* "returned": execute_task_function returned into
\* execute_task_in_background; "finished": the thread has ended.
\* db_session is the key of the execution's session in `sessions`, 0 before
\* it has one; a session object is known by the execution that made it.
Execution(origin, task_id, at) ==
  [origin |-> origin, task_id |-> task_id, pc |-> at, db_session |-> 0,
   outcome |-> "none"]

\* the executions inside execute_task_function
running(e) == executions[e].pc \in {"begin", "lookup", "logic"}

\* where an execution is once execute_task_function has returned or raised:
\* the scheduler's worker is done, the API's thread is back in
\* execute_task_in_background
after_return(origin) == IF origin = "api" THEN "returned" ELSE "finished"

\* an execution that takes a session another execution made when there is one
shared_session(ss, e) ==
  IF DOMAIN ss # {} THEN CHOOSE s \in DOMAIN ss : TRUE ELSE e

\* db_session = Session(): a session object nothing else refers to
new_session(ss, e) == e

\* the sessions once execution e holds session s
with_session(ss, s, e) ==
  IF s \in DOMAIN ss
  THEN ss
  ELSE (s :> [owner |-> e, open |-> TRUE, users |-> {}]) @@ ss

\* finally: db_session.close()
close_session(ss, s) == [ss EXCEPT ![s].open = FALSE]

\* the scheduler fires the job of a task: APScheduler runs
\* execute_task_function in a worker thread unless an instance of the same
\* job is still running (its default max_instances is 1)
FireJob ==
  /\ Len(executions) < MaxExecutions
  /\ \E t \in TaskIds :
       /\ \A e \in 1..Len(executions) :
            (executions[e].origin = "scheduler" /\ executions[e].task_id = t)
              => executions[e].pc = "finished"
       /\ executions' = Append(executions, Execution("scheduler", t, "begin"))
  /\ UNCHANGED <<sessions, task_execution_status>>
  /\ UNCHANGED <<pipeline_vars, normalizer_vars, batch_vars>>

\* trigger_task / trigger_task_by_name for an enabled task: the handler (with
\* a session of its own, closed before it answers) starts a daemon thread on
\* execute_task_in_background and answers 'submitted'
TriggerTask ==
  /\ Len(executions) < MaxExecutions
  /\ \E t \in TaskIds :
       executions' = Append(executions, Execution("api", t, "spawned"))
  /\ UNCHANGED <<sessions, task_execution_status>>
  /\ UNCHANGED <<pipeline_vars, normalizer_vars, batch_vars>>

\* execute_task_in_background starts: the status entry is written
BackgroundStart ==
  /\ \E e \in 1..Len(executions) :
       /\ executions[e].pc = "spawned"
       /\ executions' = [executions EXCEPT ![e].pc = "begin"]
       /\ task_execution_status' = (e :> "running") @@ task_execution_status
  /\ UNCHANGED sessions
  /\ UNCHANGED <<pipeline_vars, normalizer_vars, batch_vars>>

\* execute_task_function, lines 20-22: engine, session factory and session
\* are made; an exception here is raised before the try block, so it leaves
\* execute_task_function (APScheduler logs it, execute_task_in_background
\* records 'failed')
CreateSession ==
  /\ \E e \in 1..Len(executions), ok \in BOOLEAN :
       /\ executions[e].pc = "begin"
       /\ IF ok
          THEN LET s == new_session(sessions, e)
               IN /\ sessions' = with_session(sessions, s, e)
                  /\ executions' = [executions EXCEPT ![e].pc = "lookup",
                                                      ![e].db_session = s]
                  /\ UNCHANGED task_execution_status
          ELSE /\ executions' = [executions EXCEPT ![e].pc = "finished",
                                                   ![e].outcome = "no_session"]
               /\ task_execution_status' =
                    IF executions[e].origin = "api"
                    THEN [task_execution_status EXCEPT ![e] = "failed"]
                    ELSE task_execution_status
               /\ UNCHANGED sessions
  /\ UNCHANGED <<pipeline_vars, normalizer_vars, batch_vars>>

\* task_service.get_task_by_id(task_id) on the execution's session; when the
\* task is gone the function returns through the finally clause
LookupTask ==
  /\ \E e \in 1..Len(executions), found \in BOOLEAN :
       /\ executions[e].pc = "lookup"
       /\ LET s == executions[e].db_session
              used == [sessions EXCEPT ![s].users = @ \cup {e}]
          IN IF found
             THEN /\ sessions' = used
                  /\ executions' = [executions EXCEPT ![e].pc = "logic"]
             ELSE /\ sessions' = close_session(used, s)
                  /\ executions' =
                       [executions EXCEPT
                          ![e].pc = after_return(executions[e].origin),
                          ![e].outcome = "not_found"]
  /\ UNCHANGED task_execution_status
  /\ UNCHANGED <<pipeline_vars, normalizer_vars, batch_vars>>

\* _run_task_logic runs to its end or raises; the except clause logs the
\* exception, the finally clause closes the session, the function returns
RunTaskLogic ==
  /\ \E e \in 1..Len(executions), raises \in BOOLEAN :
       /\ executions[e].pc = "logic"
       /\ sessions' = close_session(sessions, executions[e].db_session)
       /\ executions' =
            [executions EXCEPT
               ![e].pc = after_return(executions[e].origin),
               ![e].outcome = IF raises THEN "raised" ELSE "completed"]
  /\ UNCHANGED task_execution_status
  /\ UNCHANGED <<pipeline_vars, normalizer_vars, batch_vars>>

\* execute_task_in_background after execute_task_function returned: the
\* status entry becomes 'completed' and the thread ends
BackgroundFinish ==
  /\ \E e \in 1..Len(executions) :
       /\ executions[e].pc = "returned"
       /\ executions' = [executions EXCEPT ![e].pc = "finished"]
       /\ task_execution_status' =
            [task_execution_status EXCEPT ![e] = "completed"]
  /\ UNCHANGED sessions
  /\ UNCHANGED <<pipeline_vars, normalizer_vars, batch_vars>>

\* get_task_status(execution_id): the entry with 200, or 'not found' with 404
get_task_status(execution_id) ==
  IF execution_id \in DOMAIN task_execution_status
  THEN [code |-> 200, status |-> task_execution_status[execution_id]]
  ELSE [code |-> 404, status |-> "not found"]

InitScheduler ==
  /\ PipelineIdle
  /\ NormalizerIdle
  /\ SchedulerIdle
  /\ BatchIdle

NextScheduler ==
  \/ FireJob
  \/ TriggerTask
  \/ BackgroundStart
  \/ CreateSession
  \/ LookupTask
  \/ RunTaskLogic
  \/ BackgroundFinish

SpecScheduler == InitScheduler /\ [][NextScheduler]_vars

----------------------------------------------------------------------------
(* Batch API calls: BatchApiService on one CSV file, row after row *)

\* Bound of the model: the rows of the CSV file
MaxBatchRows == 2

\* the status codes the upload and the workflow endpoint answer with
StatusCodes == {200, 201, 202, 500}

\* what requests.post does for the upload: it raises a RequestException, or
\* it returns a response with a status code and a body, which is a JSON
\* object with an 'id', a JSON object without one, or no JSON object
UploadOutcomes ==
  [raised : {TRUE}, status_code : {0}, body : {"none"}]
  \cup [raised : {FALSE}, status_code : StatusCodes,
        body : {"id", "no_id", "not_json"}]

\* what requests.post does for the workflow run
WorkflowOutcomes ==
  [raised : {TRUE}, status_code : {0}]
  \cup [raised : {FALSE}, status_code : {200, 500}]

\* a workflow call for every upload that returned a response
upload_ok_any(status_code) == TRUE

\* response.status_code in [200, 201]
upload_ok(status_code) == status_code \in {200, 201}

\* upload_response_data.get('id'), and the same from json.loads of the text
file_id_of(body) == IF body = "id" THEN "file-1" ELSE None

\* the return values of _call_workflow_api: no run, the dict of the workflow
\* response, the dict of the except clause
NoRun == [kind |-> "none", status_code |-> 0]
RunResponse(status_code) == [kind |-> "response", status_code |-> status_code]
RunError == [kind |-> "error", status_code |-> 0]

\* _call_workflow_api: whether the workflow endpoint was called, and the
\* value returned
call_workflow_api(up, wf) ==
  IF up.body = "not_json"
  THEN [called |-> FALSE, run_response |-> RunError]
  ELSE IF file_id_of(up.body) # None
       THEN [called |-> TRUE,
             run_response |-> IF wf.raised THEN RunError
                              ELSE RunResponse(wf.status_code)]
       ELSE [called |-> FALSE, run_response |-> NoRun]

\* Python's `a or b` of a comparison and an integer, as a truth value
or_truthy(a, b) == a \/ b # 0

\* 'completed' if response.status_code == 200 or 201 else 'failed'
record_status(status_code) ==
  IF or_truthy(status_code = 200, 201) THEN "completed" ELSE "failed"

\* the DifyCallResult that _save_api_result_to_db builds
DifyCallResult(row, status_code, run_response) ==
  [row |-> row,
   upload_api_response |-> [status_code |-> status_code],
   run_response |-> run_response,
   status |-> record_status(status_code)]

\* one requests.post as the history keeps it: the upload of a row with what
\* came back (status code 0 and body "none" when it raised), the workflow
\* run of a row with the upload_file_id it sent
UploadCall(row, up) ==
  [row |-> row, endpoint |-> "files/upload", status_code |-> up.status_code,
   body |-> up.body, upload_file_id |-> None]

WorkflowCall(row, file_id) ==
  [row |-> row, endpoint |-> "workflows/run", status_code |-> 0,
   body |-> "none", upload_file_id |-> file_id]

\* _process_csv_file opens the file and makes the reader
OpenCsvFile ==
  /\ batch_pc = "idle"
  /\ batch_pc' = "rows"
  /\ row_idx' = 0
  /\ UNCHANGED <<csv_rows, result_table, http_calls, dify_call_results>>
  /\ UNCHANGED <<pipeline_vars, normalizer_vars, scheduler_vars>>

\* _process_csv_row on the next row: the upload, the workflow run when the
\* upload succeeded, and the saving of the result when a result table is
\* configured (the session of _save_api_result_to_db is taken to be
\* creatable; its commit succeeds or fails)
ProcessCsvRow ==
  /\ batch_pc = "rows"
  /\ row_idx < csv_rows
  /\ \E up \in UploadOutcomes, wf \in WorkflowOutcomes, commit \in BOOLEAN :
       LET row == row_idx + 1
           upload == UploadCall(row, up)
       IN IF up.raised
          THEN /\ http_calls' = Append(http_calls, upload)
               /\ UNCHANGED dify_call_results
          ELSE LET run == IF upload_ok(up.status_code)
                          THEN call_workflow_api(up, wf)
                          ELSE [called |-> FALSE, run_response |-> NoRun]
               IN /\ http_calls' =
                       IF run.called
                       THEN http_calls
                            \o <<upload, WorkflowCall(row, file_id_of(up.body))>>
                       ELSE Append(http_calls, upload)
                  /\ dify_call_results' =
                       IF result_table /\ commit
                       THEN Append(dify_call_results,
                                   DifyCallResult(row, up.status_code,
                                                  run.run_response))
                       ELSE dify_call_results
  /\ row_idx' = row_idx + 1
  /\ UNCHANGED <<csv_rows, result_table, batch_pc>>
  /\ UNCHANGED <<pipeline_vars, normalizer_vars, scheduler_vars>>

\* the reader is exhausted: _process_csv_file returns
EndOfCsvFile ==
  /\ batch_pc = "rows"
  /\ row_idx = csv_rows
  /\ batch_pc' = "done"
  /\ UNCHANGED <<csv_rows, result_table, row_idx, http_calls, dify_call_results>>
  /\ UNCHANGED <<pipeline_vars, normalizer_vars, scheduler_vars>>

\* a task of type batch_api_call with its CSV file and its result_table,
\* configured or not
InitBatch ==
  /\ PipelineIdle
  /\ NormalizerIdle
  /\ SchedulerIdle
  /\ csv_rows \in 1..MaxBatchRows
  /\ result_table \in BOOLEAN
  /\ batch_pc = "idle"
  /\ row_idx = 0
  /\ http_calls = <<>>
  /\ dify_call_results = <<>>

NextBatch ==
  \/ OpenCsvFile
  \/ ProcessCsvRow
  \/ EndOfCsvFile

SpecBatch == InitBatch /\ [][NextBatch]_vars

----------------------------------------------------------------------------
(* Properties *)

\* the accumulated rows of a case id (no row when it has no accumulator)
group_of_case(c) ==
  IF has_key(all_groups, c)
  THEN all_groups[CHOOSE i \in 1..Len(all_groups) : all_groups[i].case_id = c].group
  ELSE <<>>

Range(xs) == {xs[i] : i \in 1..Len(xs)}

SameKey(r1, r2) == r1.case_id = r2.case_id /\ r1.trans_key = r2.trans_key

\* the surviving rows of the run that carry case id c, in the order they
\* left _process_chunk
survived_of(c) == LET is(r) == r.case_id = c IN SelectSeq(survived, is)

\* the number of chunks the input makes
chunk_total ==
  (Len(input) + chunk_size - 1) \div chunk_size

\* C1: in every reachable state of a run no Case Accumulator holds two rows
\* with the same composite key (case_id, trans_key), wherever the duplicates
\* fall: in different chunks or in the same chunk.
C1_NoDuplicateKeyInAccumulator ==
  \A e \in Range(all_groups) :
    \A i, j \in 1..Len(e.group) :
      i # j => ~SameKey(e.group[i], e.group[j])

\* C2: dedup is idempotent within a run: a chunk that was already processed
\* in the run, passed to _process_chunk again, yields no surviving row and
\* leaves the seen keys unchanged; and two rows with the same case_id and
\* trans_key in two chunks of size 1 give trans_count 1 for that case.
C2_DedupIdempotent ==
  /\ pc # "idle" =>
       \A j \in 0..(chunk_idx - 1) :
         LET again == process_chunk(chunk_at(input, chunk_size, j),
                                    seen_case_trans_keys)
         IN again.rows = <<>> /\ again.seen = seen_case_trans_keys
  /\ ( /\ chunk_size = 1
       /\ Len(input) = 2
       /\ input[1].case_id # NaN
       /\ input[1].trans_key # NaN
       /\ SameKey(input[1], input[2]) )
     => \A r \in Range(all_results) : r.trans_count = 1

\* C2 witness: the two-chunk scenario has run to its end and wrote the case
\* with trans_count 1, the second chunk having left no surviving row.
C2_Witness ==
  /\ chunk_size = 1
  /\ Len(input) = 2
  /\ SameKey(input[1], input[2])
  /\ pc = "idle"
  /\ chunk_idx = 2
  /\ Len(survived) = 1
  /\ Len(written) = 1
  /\ written[1].trans_count = 1

\* C3: every result row's trans_count is the number of rows of its case id
\* that survived chunk processing over all chunks of the run, and every
\* surviving row is accumulated exactly once, under its own case id.
C3_TransCountIsSurvivors ==
  /\ \A e \in Range(all_groups) : e.group = survived_of(e.case_id)
  /\ \A i, j \in 1..Len(all_groups) :
       all_groups[i].case_id = all_groups[j].case_id => i = j
  /\ \A r \in Range(survived) : has_key(all_groups, r.case_id)
  /\ \A r \in Range(all_results) \cup Range(written) :
       r.trans_count = Len(survived_of(r.case_id))

\* C3 witness: a written case whose two rows arrived in two chunks.
C3_Witness ==
  /\ pc = "idle"
  /\ chunk_size = 1
  /\ \E r \in Range(written) :
       /\ r.trans_count = 2
       /\ \E i, j \in 1..Len(input) :
            /\ i # j
            /\ input[i].case_id = r.case_id
            /\ input[j].case_id = r.case_id

\* C4: the seen keys are empty whenever no run is in progress (before a run
\* starts reading and after it returned, by success, empty result or
\* exception), a starting run reads its first chunk with an empty set, and
\* while a run is in progress the set only grows.
C4_SeenKeysScopedToRun ==
  /\ [](pc = "idle" => seen_case_trans_keys = {})
  /\ [][pc = "idle" /\ pc' = "reading" => seen_case_trans_keys' = {}]_vars
  /\ [][pc # "idle" /\ pc' # "idle"
        => seen_case_trans_keys \subseteq seen_case_trans_keys']_vars

\* C4 witness: a run that had seen keys has returned by the exception path
\* and the set is empty.
C4_Witness ==
  /\ pc = "idle"
  /\ result = ErrorResult
  /\ survived # <<>>
  /\ seen_case_trans_keys = {}

\* C5: a case whose aggregation raises has no result row, every other
\* aggregated case has one, the loop goes on over all accumulated cases, and
\* the run returns success with every non-raising case written as soon as
\* one case was aggregated.
C5_CaseIsolation ==
  /\ \A c \in Range(aggregated) :
       (c \in raised) <=> ~has_key(all_results, c)
  /\ (pc = "idle" /\ aggregated # <<>>) =>
       /\ Len(aggregated) = Len(all_groups)
       /\ (\E c \in Range(aggregated) : c \notin raised) =>
            /\ result.success
            /\ \A e \in Range(all_groups) :
                 e.case_id \notin raised => has_key(written, e.case_id)
            /\ \A c \in raised : ~has_key(written, c)

\* C5 witness: a run in which one case raised and another was written.
C5_Witness ==
  /\ pc = "idle"
  /\ raised # {}
  /\ result.success
  /\ written # <<>>

\* C6: no case is aggregated while a chunk remains unprocessed, every
\* accumulated case id is aggregated exactly once, and the output holds at
\* most one row per case id.
C6_AggregateAfterInput ==
  /\ aggregated # <<>> => chunk_idx = chunk_total
  /\ pc = "aggregating" => chunk_idx = chunk_total
  /\ \A i, j \in 1..Len(aggregated) : aggregated[i] = aggregated[j] => i = j
  /\ (pc = "idle" /\ result.message \in {"done", "empty"}) =>
       Range(aggregated) = {e.case_id : e \in Range(all_groups)}
  /\ \A i, j \in 1..Len(written) :
       written[i].case_id = written[j].case_id => i = j

\* C6 witness: a run over several chunks that wrote two cases.
C6_Witness ==
  /\ pc = "idle"
  /\ chunk_idx >= 2
  /\ Len(written) = 2
  /\ Len(aggregated) = 2

\* the conditions of the risk profile as the specification words them, over
\* the accumulated rows g of one case
DistinctIps(g) == {g[i].ip_addr : i \in 1..Len(g)} \ {NaN}
DistinctMacs(g) == {g[i].mac_addr : i \in 1..Len(g)} \ {NaN}
IpDispersed(g) == 2 * Cardinality(DistinctIps(g)) > Len(g)
MacDispersed(g) == 10 * Cardinality(DistinctMacs(g)) > 3 * Len(g)
ValidHourRows(g) == {i \in 1..Len(g) : g[i].hour # HourNaN}
NightRows(g) == {i \in ValidHourRows(g) : g[i].hour >= 23 \/ g[i].hour <= 6}
NightRatioHigh(g) ==
  /\ ValidHourRows(g) # {}
  /\ 10 * Cardinality(NightRows(g)) > 8 * Cardinality(ValidHourRows(g))
AvgAtMostTen(g) ==
  seq_sum([i \in 1..Len(g) |-> g[i].trans_amt]) <= 10 * Cent * Len(g)
RechargeUsage(g) ==
  \E i \in 1..Len(g) :
    g[i].fund_usage \in {"chongzhi", "chongzhi shouxufei"}
GamblingPattern(g) ==
  /\ Len(g) >= 50
  /\ AvgAtMostTen(g)
  /\ NightRatioHigh(g)
  /\ RechargeUsage(g)

Contains(rendered, k) == \E i \in 1..Len(rendered) : rendered[i] = k

\* C7: the rendered risk_keywords of every aggregated case contains the
\* ip-dispersed keyword whenever distinct non-null ip_addr / rows > 0.5 and
\* the device-dispersed keyword whenever distinct non-null mac_addr / rows
\* > 0.3.
C7_DispersedKeywordsRendered ==
  \A r \in Range(all_results) :
    LET g == group_of_case(r.case_id)
    IN /\ IpDispersed(g) => Contains(r.risk_keywords, "IP_dispersed")
       /\ MacDispersed(g) => Contains(r.risk_keywords, "device_dispersed")

\* C8: the suspicion flag is "yes" exactly when the gambling pattern holds
\* (rows >= 50, average amount <= 10, night ratio over valid hours > 0.8, a
\* recharge/cashback purpose) or the ip ratio is > 0.5 or the mac ratio is
\* > 0.3, and "no" otherwise.
C8_SuspicionFlag ==
  \A r \in Range(all_results) :
    LET g == group_of_case(r.case_id)
    IN /\ r.is_network_gambling_suspected \in {"yes", "no"}
       /\ r.is_network_gambling_suspected = "yes"
            <=> (GamblingPattern(g) \/ IpDispersed(g) \/ MacDispersed(g))

\* C8 witness: a case flagged by the gambling pattern alone, its ip and mac
\* ratios being low.
C8_Witness ==
  \E r \in Range(all_results) :
    LET g == group_of_case(r.case_id)
    IN /\ r.is_network_gambling_suspected = "yes"
       /\ GamblingPattern(g)
       /\ DistinctIps(g) # {}
       /\ ~IpDispersed(g)
       /\ ~MacDispersed(g)

\* C9: a case with at least 50 rows, every amount <= 10, every hour valid
\* and more than 80% of them at night, and a purpose with the recharge
\* keyword has the small-amount, high-frequency and night-time keywords in
\* risk_keywords and the suspicion flag "yes".
C9_GamblingScenario ==
  \A r \in Range(all_results) :
    LET g == group_of_case(r.case_id)
    IN ( /\ Len(g) >= 50
         /\ \A i \in 1..Len(g) : g[i].trans_amt <= 10 * Cent
         /\ ValidHourRows(g) = 1..Len(g)
         /\ 10 * Cardinality(NightRows(g)) > 8 * Len(g)
         /\ RechargeUsage(g) )
       => /\ Contains(r.risk_keywords, "small_amount")
          /\ Contains(r.risk_keywords, "high_frequency")
          /\ Contains(r.risk_keywords, "night")
          /\ r.is_network_gambling_suspected = "yes"

\* C9 witness: the case of 60 rows, 50 of them at night, all amounts 10, with
\* the recharge purpose, aggregated with the three keywords and the flag.
C9_Witness ==
  \E r \in Range(all_results) :
    LET g == group_of_case(r.case_id)
    IN /\ Len(g) = 60
       /\ Cardinality(NightRows(g)) = 50
       /\ \A i \in 1..Len(g) : g[i].trans_amt = 10 * Cent
       /\ RechargeUsage(g)
       /\ Contains(r.risk_keywords, "small_amount")
       /\ Contains(r.risk_keywords, "high_frequency")
       /\ Contains(r.risk_keywords, "night")
       /\ r.is_network_gambling_suspected = "yes"

\* C10: sample_trx_list of every aggregated case has at most 6 entries, and
\* the date, time and amount of every entry are those of one accumulated row
\* of the case.
C10_SampleBound ==
  \A r \in Range(all_results) :
    LET g == group_of_case(r.case_id)
    IN /\ Len(r.sample_trx_list) <= 6
       /\ \A e \in Range(r.sample_trx_list) :
            \E i \in 1..Len(g) :
              /\ g[i].trans_date # NaT
              /\ e.TR_DT = "day " \o ToString(g[i].trans_date)
              /\ e.TR_TM = ToString(g[i].hour) \o ":00"
              /\ e.TR_AMT = g[i].trans_amt

\* C10 witness: a case with more than 6 timestamped rows whose sample has
\* exactly 6 entries.
C10_Witness ==
  \E r \in Range(all_results) :
    /\ r.trans_count > 6
    /\ Len(r.sample_trx_list) = 6

\* the columns of the output that _aggregate_case_data does not compute
NotComputed == Range(expected_columns) \ Range(result_columns)

\* C11: whenever a run has returned success, every row it wrote has exactly
\* the expected columns in the expected order (37 of them, none twice), each
\* column the aggregator did not compute (integer_trans_info) is there with
\* the empty string, and the computed cells are those of the case's result.
C11_ColumnCompleteness ==
  result.success =>
    /\ Len(written) = Len(all_results)
    /\ \A i \in 1..Len(written) :
         /\ written[i].columns = expected_columns
         /\ Len(written[i].columns) = 37
         /\ \A j, k \in 1..Len(written[i].columns) :
              written[i].columns[j] = written[i].columns[k] => j = k
         /\ \A c \in NotComputed : written[i][c] = ""
         /\ \A c \in DOMAIN all_results[i] : written[i][c] = all_results[i][c]

\* C11 witness: a successful run that wrote two rows, integer_trans_info
\* last and empty in both.
C11_Witness ==
  /\ result.success
  /\ Len(written) = 2
  /\ "integer_trans_info" \in NotComputed
  /\ \A i \in 1..2 :
       /\ written[i].columns[37] = "integer_trans_info"
       /\ written[i].integer_trans_info = ""

\* the run has returned after its aggregation loop passed every accumulator
RunCompleted ==
  /\ pc = "idle"
  /\ result # NoResult
  /\ chunk_idx = chunk_total
  /\ agg_idx = Len(all_groups)

\* C12: a completed run aggregated no case exactly when no row survived or
\* every aggregation raised; such a run wrote nothing and returned success
\* false, processed_count 0 and output_file null, with a message that is not
\* the message of a run that raised.
C12_EmptyResult ==
  RunCompleted =>
    /\ all_results = <<>> <=>
         (survived = <<>> \/ \A c \in Range(aggregated) : c \in raised)
    /\ all_results = <<>> =>
         /\ written = <<>>
         /\ ~result.success
         /\ result.processed_count = 0
         /\ result.output_file = "null"
         /\ result.message # ErrorResult.message
         /\ result.message # SuccessResult(0).message

\* C12 witness: a completed run in which rows of two cases survived and both
\* aggregations raised, so that the empty result was returned.
C12_Witness ==
  /\ RunCompleted
  /\ Cardinality(raised) = 2
  /\ survived # <<>>
  /\ result = EmptyResult
  /\ written = <<>>

\* the chunk loop is left while chunks are unread: read_csv or the chunk
\* iterator raised, or a required column was missing
ReadStops ==
  /\ pc = "reading"
  /\ more_chunks(input, chunk_size, chunk_idx)
  /\ pc' # "reading"

\* C13: when the chunk loop is left with chunks unread (source unreadable or
\* required column missing) the run ends in that step: it returns to the
\* caller a result with success false, processed_count 0 and output_file
\* null, no further chunk is processed, and no case is aggregated or
\* written; and success is true only if at least one case row was written.
C13_RunLevelFailure ==
  /\ [](result.success => written # <<>> /\ result.processed_count = Len(written))
  /\ [](pc \in {"idle", "reading", "aggregating"})
  /\ [][ReadStops =>
          /\ pc' = "idle"
          /\ ~result'.success
          /\ result'.message = ErrorResult.message
          /\ result'.processed_count = 0
          /\ result'.output_file = "null"
          /\ chunk_idx' = chunk_idx
          /\ all_groups' = all_groups
          /\ aggregated' = <<>>
          /\ all_results' = <<>>
          /\ written' = <<>>]_vars

\* C13 witness: a run that failed on its second chunk: the first chunk was
\* accumulated, nothing was aggregated or written.
C13_Witness ==
  /\ pc = "idle"
  /\ result = ErrorResult
  /\ chunk_idx = 1
  /\ chunk_idx < chunk_total
  /\ all_groups # <<>>
  /\ aggregated = <<>>
  /\ written = <<>>

\* the last process_csv_for_dify call had neither a file path nor content
NoInput == ~truthy(request.csv_file_path) /\ ~truthy(request.csv_content)

\* the last process_csv_for_dify call had both a file path and content
BothInputs == truthy(request.csv_file_path) /\ truthy(request.csv_content)

\* nothing of the pipeline has run since the last call
PipelineUntouched ==
  /\ pc = "idle"
  /\ chunk_idx = 0
  /\ seen_case_trans_keys = {}
  /\ all_groups = <<>>
  /\ survived = <<>>
  /\ aggregated = <<>>
  /\ all_results = <<>>
  /\ written = <<>>

\* C14: after a process_csv_for_dify call with neither csv_file_path nor a
\* non-empty csv_content the pipeline has not run, no output was written and
\* the call returned success false, processed_count 0, output_file null.
C14_NeitherInputRejected ==
  NoInput =>
    /\ PipelineUntouched
    /\ result # NoResult =>
         /\ ~result.success
         /\ result.processed_count = 0
         /\ result.output_file = "null"
         /\ result.message = UsageResult.message

\* C14 witness: a call whose csv_content is the empty text was rejected.
C14_Witness ==
  /\ request = [csv_file_path |-> None, csv_content |-> ""]
  /\ result = UsageResult
  /\ PipelineUntouched

\* C15: a process_csv_for_dify call that supplies both csv_file_path and
\* csv_content is rejected like a call that supplies neither: the pipeline
\* does not run and the usage failure is returned.
C15_ExactlyOneInput ==
  BothInputs => PipelineUntouched /\ result = UsageResult

\* the inputs for which the default is promised: a missing cell, the empty
\* text, the null tokens in lower and upper case and with white space
\* around, and a text that is no number
DefaultedInputs ==
  {NaN, "", "null", "NULL", " null ", "n/a", "N/A", "nan", "NaN", "inf", "INF",
   " inf ", "-inf", "-INF", "<null>", "<NULL>", "#n/a", "#N/A", "abc"}

\* C16: _safe_convert_to_float returns exactly the supplied default for
\* every input that is null, empty, a null token (null, n/a, nan, inf, -inf,
\* <null>, #n/a) in any letter case, or another text that is no number.
C16_DefaultSafety ==
  (call.fn = "safe_convert_to_float" /\ call.value \in DefaultedInputs)
    => call.ret = call.default

\* a text of two numbers and a trailing year with the separator '/' and a
\* clock for which the list has both the month-first and the day-first format
SlashDate(v) ==
  /\ v.kind = "date"
  /\ v.sep = "/"
  /\ v.f3 >= 1000
  /\ v.clock \in {"none", "hms"}

\* C17: the timestamp parser takes the first format of the list that
\* matches: a text that is a date both as MM/DD/YYYY and as DD/MM/YYYY is
\* read as month/day, a text that is a date only as DD/MM/YYYY is read as
\* day/month, and a missing cell, a null token or a text that is no date
\* gives NaT.
C17_FormatOrder ==
  call.fn = "convert_single_datetime" =>
    LET v == call.value
    IN /\ (SlashDate(v) /\ ValidDate(v.f3, v.f1, v.f2))
            => call.ret = Timestamp(v.f3, v.f1, v.f2, v.hour)
       /\ (SlashDate(v) /\ ~ValidDate(v.f3, v.f1, v.f2) /\ ValidDate(v.f3, v.f2, v.f1))
            => call.ret = Timestamp(v.f3, v.f2, v.f1, v.hour)
       /\ (SlashDate(v) /\ ~ValidDate(v.f3, v.f1, v.f2) /\ ~ValidDate(v.f3, v.f2, v.f1))
            => call.ret = NaT
       /\ v.kind \in {"nan", "token"} => call.ret = NaT

\* C17 witness: 02/04/2024, a date under both readings, was parsed as the
\* 4th of February.
C17_Witness ==
  /\ call.fn = "convert_single_datetime"
  /\ call.value = RawCell("date", "", "/", 2, 4, Year0, "none", 0)
  /\ ValidDate(Year0, 4, 2)
  /\ call.ret = Timestamp(Year0, 2, 4, 0)
  /\ call.ret # Timestamp(Year0, 4, 2, 0)

\* the executions that are inside execute_task_function
Running == {e \in 1..Len(executions) : running(e)}

\* C18: at most TASK_CONCURRENCY task executions run at the same time, the
\* scheduler's and the API's counted together.
C18_BoundedConcurrency == Cardinality(Running) <= TASK_CONCURRENCY

\* the executions that hold session s in db_session
Holders(s) == {e \in 1..Len(executions) : executions[e].db_session = s}

\* C19: an execution inside its try block holds an open session that it made
\* itself and that no other execution holds or has used; and once
\* execute_task_function has returned after the task was not found, the
\* logic completed or the logic raised, the execution's session is closed.
C19_OwnSessionClosed ==
  /\ \A s \in DOMAIN sessions :
       /\ Holders(s) = {sessions[s].owner}
       /\ sessions[s].users \subseteq {sessions[s].owner}
  /\ \A e \in 1..Len(executions) :
       LET x == executions[e]
       IN /\ x.pc \in {"lookup", "logic"} =>
               /\ x.db_session \in DOMAIN sessions
               /\ sessions[x.db_session].open
          /\ x.outcome \in {"not_found", "completed", "raised"} =>
               /\ x.pc \in {"returned", "finished"}
               /\ x.db_session \in DOMAIN sessions
               /\ ~sessions[x.db_session].open
          /\ x.pc \in {"returned", "finished"} =>
               \A s \in DOMAIN sessions : sessions[s].owner = e => ~sessions[s].open

\* C19 witness: three executions have returned, one on each path, with their
\* sessions closed, while a fourth is inside its try block with a session of
\* its own.
C19_Witness ==
  /\ \E e1, e2, e3, e4 \in 1..Len(executions) :
       /\ executions[e1].outcome = "not_found"
       /\ executions[e2].outcome = "completed"
       /\ executions[e3].outcome = "raised"
       /\ executions[e4].pc = "logic"
       /\ \A e \in {e1, e2, e3} : ~sessions[executions[e].db_session].open
       /\ sessions[executions[e4].db_session].open
       /\ Cardinality({executions[e].db_session : e \in {e1, e2, e3, e4}}) = 4

\* a row without case_id or without trans_key
MissingKey(r) == r.case_id = NaN \/ r.trans_key = NaN

\* the rows of a chunk that have both case_id and trans_key
WithKeys(chunk_df) == LET has(r) == ~MissingKey(r) IN SelectSeq(chunk_df, has)

\* the rows of the input read so far
RowsRead ==
  SubSeq(input, 1,
         IF chunk_idx * chunk_size < Len(input)
         THEN chunk_idx * chunk_size
         ELSE Len(input))

\* C20: a row whose case_id or trans_key is missing is dropped by
\* _process_chunk: it is not among the surviving rows, its key is not in the
\* seen keys, it is in no Case Accumulator and in no trans_count; and the
\* chunk that is next gives the same surviving rows and the same seen keys
\* as it would without its rows of that kind.
C20_MissingKeyRowsDropped ==
  /\ \A r \in Range(survived) : ~MissingKey(r)
  /\ \A i \in 1..Len(input) :
       MissingKey(input[i]) => case_trans_key(input[i]) \notin seen_case_trans_keys
  /\ \A i \in 1..Len(all_groups) :
       /\ all_groups[i].case_id # NaN
       /\ \A r \in Range(all_groups[i].group) : ~MissingKey(r)
  /\ \A r \in Range(all_results) \cup Range(written) :
       LET of_case(x) == x.case_id = r.case_id /\ ~MissingKey(x)
       IN r.trans_count <= Len(SelectSeq(RowsRead, of_case))
  /\ (pc = "reading" /\ more_chunks(input, chunk_size, chunk_idx)) =>
       LET chunk_df == chunk_at(input, chunk_size, chunk_idx)
       IN process_chunk(chunk_df, seen_case_trans_keys)
            = process_chunk(WithKeys(chunk_df), seen_case_trans_keys)

\* C20 witness: a chunk of a row without case_id, a row without trans_key and
\* a row with both was processed: one row survived and was counted.
C20_Witness ==
  /\ Len(input) = 3
  /\ chunk_size >= 3
  /\ chunk_idx = 1
  /\ input[1].case_id = NaN
  /\ input[2].trans_key = NaN
  /\ ~MissingKey(input[3])
  /\ Len(survived) = 1
  /\ Len(written) = 1
  /\ written[1].trans_count = 1

\* C21: night_trans_count of every aggregated case is the number of its rows
\* with a non-null hour h where h >= 23 or h <= 6, and the night keyword is in
\* its risk_keywords exactly when the case has a row with a non-null hour and
\* night rows / rows with a non-null hour > 0.8; rows with a null hour count
\* on neither side, and a case without any valid hour has no night keyword.
C21_NightCount ==
  \A r \in Range(all_results) :
    LET g == group_of_case(r.case_id)
        with_hour == {i \in 1..Len(g) : g[i].hour # HourNaN}
        at_night == {i \in with_hour : g[i].hour >= 23 \/ g[i].hour <= 6}
    IN /\ r.night_trans_count = Cardinality(at_night)
       /\ Contains(r.risk_keywords, "night")
            <=> /\ Cardinality(with_hour) > 0
                /\ 10 * Cardinality(at_night) > 8 * Cardinality(with_hour)
       /\ with_hour = {} => ~Contains(r.risk_keywords, "night")

\* C21 witness: a case with a row at 6h, a row at 23h and a row without
\* hour that has the night keyword, which it would not have if the row
\* without hour counted in the denominator.
C21_Witness ==
  \E r \in Range(all_results) :
    LET g == group_of_case(r.case_id)
    IN /\ Contains(r.risk_keywords, "night")
       /\ \E i \in 1..Len(g) : g[i].hour = HourNaN
       /\ \E i \in 1..Len(g) : g[i].hour = 6
       /\ \E i \in 1..Len(g) : g[i].hour = 23
       /\ ~(10 * r.night_trans_count > 8 * Len(g))

\* the rows of g the sample is drawn from, as the specification words it
LowValueUsage(r) == r.fund_usage \in {"shouxufei", "chongzhi shouxufei"}

Candidates(g) ==
  LET ordinary == {i \in 1..Len(g) : ~LowValueUsage(g[i])}
  IN IF ordinary = {} THEN 1..Len(g) ELSE ordinary

TimedCandidates(g) == {i \in Candidates(g) : g[i].trans_datetime # NaT}

\* the timestamps of the 3 earliest and of the 3 latest timed candidates
EarliestStamps(g) ==
  {g[i].trans_datetime : i \in
     {i \in TimedCandidates(g) :
        Cardinality({j \in TimedCandidates(g) :
                       g[j].trans_datetime < g[i].trans_datetime}) < 3}}

LatestStamps(g) ==
  {g[i].trans_datetime : i \in
     {i \in TimedCandidates(g) :
        Cardinality({j \in TimedCandidates(g) :
                       g[j].trans_datetime > g[i].trans_datetime}) < 3}}

\* date and time of a sample entry for timestamp ts
StampText(ts) ==
  [TR_DT |-> "day " \o ToString(ts \div 24), TR_TM |-> ToString(ts % 24) \o ":00"]

EntryStamp(e) == [TR_DT |-> e.TR_DT, TR_TM |-> e.TR_TM]

\* C22: the sample of every aggregated case is drawn from the rows whose
\* fund_usage matches no low-value keyword, or from all rows of the case when
\* there is no such row; it has one entry for each timestamp among the 3
\* earliest and the 3 latest of those rows that have a timestamp, so n <= 6
\* such rows of pairwise distinct timestamps give exactly n entries.
C22_RepresentativeSample ==
  \A r \in Range(all_results) :
    LET g == group_of_case(r.case_id)
        stamps == EarliestStamps(g) \cup LatestStamps(g)
        timed == TimedCandidates(g)
    IN /\ {EntryStamp(e) : e \in Range(r.sample_trx_list)}
            = {StampText(ts) : ts \in stamps}
       /\ Len(r.sample_trx_list) = Cardinality(stamps)
       /\ (/\ Cardinality(timed) <= 6
           /\ \A i, j \in timed :
                i # j => g[i].trans_datetime # g[j].trans_datetime)
          => Len(r.sample_trx_list) = Cardinality(timed)

\* C22 witness: a case with more than 6 ordinary rows of distinct
\* timestamps and a low-value row that is earlier than all of them: the
\* sample has 6 entries and none for the low-value row.
C22_Witness ==
  \E r \in Range(all_results) :
    LET g == group_of_case(r.case_id)
        timed == TimedCandidates(g)
    IN /\ Cardinality(timed) > 6
       /\ Len(r.sample_trx_list) = 6
       /\ \E i \in 1..Len(g) :
            /\ LowValueUsage(g[i])
            /\ g[i].trans_datetime # NaT
            /\ \A j \in timed : g[i].trans_datetime < g[j].trans_datetime
            /\ \A e \in Range(r.sample_trx_list) :
                 EntryStamp(e) # StampText(g[i].trans_datetime)

\* the flag of a row without the blanks around it
TrimmedFlag(r) ==
  CASE r.income_pay_flag = " 1 " -> "1"
    [] r.income_pay_flag = "C " -> "C"
    [] OTHER -> r.income_pay_flag

DebitRows(g) ==
  {i \in 1..Len(g) : TrimmedFlag(g[i]) \in {"1", "01", "jie", "debit", "D"}}

CreditRows(g) ==
  {i \in 1..Len(g) : TrimmedFlag(g[i]) \in {"2", "02", "dai", "credit", "C"}}

RECURSIVE AmountOver(_, _)
AmountOver(g, rows) ==
  IF rows = {}
  THEN 0
  ELSE LET i == CHOOSE i \in rows : TRUE
       IN g[i].trans_amt + AmountOver(g, rows \ {i})

\* C23: in every aggregated case debit_count is the number of rows whose
\* trimmed income_pay_flag is one of 1, 01, 借, debit, D and credit_count the
\* number of rows whose trimmed flag is one of 2, 02, 贷, credit, C; no row
\* is in both, so debit_count + credit_count <= trans_count, and debit_amt and
\* credit_amt are the sums of trans_amt over exactly those rows.
C23_DebitCreditSplit ==
  \A r \in Range(all_results) :
    LET g == group_of_case(r.case_id)
    IN /\ r.debit_count = Cardinality(DebitRows(g))
       /\ r.credit_count = Cardinality(CreditRows(g))
       /\ DebitRows(g) \cap CreditRows(g) = {}
       /\ r.debit_count + r.credit_count <= r.trans_count
       /\ r.debit_amt = AmountOver(g, DebitRows(g))
       /\ r.credit_amt = AmountOver(g, CreditRows(g))

\* C23 witness: a case of two rows, one with the debit flag ' 1 ' and one
\* with a flag of neither list: one debit of a positive amount, no credit.
C23_Witness ==
  \E r \in Range(all_results) :
    LET g == group_of_case(r.case_id)
    IN /\ r.trans_count = 2
       /\ \E i \in 1..Len(g) : g[i].income_pay_flag = " 1 "
       /\ \E i \in 1..Len(g) : g[i].income_pay_flag \in {"3", "d", NaN}
       /\ r.debit_count = 1
       /\ r.debit_amt > 0
       /\ r.credit_count = 0
       /\ r.debit_amt < r.total_trans_amt

\* the positions in the history of the calls of one row to one endpoint
CallsOf(row, endpoint) ==
  {i \in 1..Len(http_calls) :
     http_calls[i].row = row /\ http_calls[i].endpoint = endpoint}

\* the upload of the row answered 200 or 201 with a body that has an 'id'
UploadGaveId(row) ==
  \E i \in CallsOf(row, "files/upload") :
    /\ http_calls[i].status_code \in {200, 201}
    /\ http_calls[i].body = "id"

\* C24: for each CSV row at most one upload call and at most one
\* workflow-run call are made; a workflow-run call comes after an upload of
\* the same row that returned 200 or 201 with a file identifier, which it
\* sends; a row whose upload failed or gave no identifier has no
\* workflow-run call, and the rows after it are processed all the same: when
\* the file is done every row has had its upload call.
C24_UploadThenWorkflow ==
  /\ \A row \in 1..csv_rows :
       /\ Cardinality(CallsOf(row, "files/upload")) <= 1
       /\ Cardinality(CallsOf(row, "workflows/run")) <= 1
       /\ ~UploadGaveId(row) => CallsOf(row, "workflows/run") = {}
  /\ \A i \in 1..Len(http_calls) :
       http_calls[i].endpoint = "workflows/run"
       => /\ http_calls[i].upload_file_id # None
          /\ \E j \in 1..(i - 1) :
               /\ http_calls[j].row = http_calls[i].row
               /\ http_calls[j].endpoint = "files/upload"
               /\ http_calls[j].status_code \in {200, 201}
               /\ http_calls[j].body = "id"
  /\ batch_pc = "done"
     => \A row \in 1..csv_rows :
          Cardinality(CallsOf(row, "files/upload")) = 1

\* C24 witness: a file of two rows is done; the upload of the first row
\* raised or failed and that row has no workflow run, the second row was
\* uploaded and its workflow run.
C24_Witness ==
  /\ batch_pc = "done"
  /\ csv_rows = 2
  /\ ~UploadGaveId(1)
  /\ CallsOf(1, "workflows/run") = {}
  /\ UploadGaveId(2)
  /\ CallsOf(2, "workflows/run") # {}

\* C30: a call-result record saved for an upload has status 'completed' only
\* if the upload's HTTP status code is 200 or 201, and status 'failed' for
\* every other status code.
C30_StatusFollowsUpload ==
  \A rec \in Range(dify_call_results) :
    /\ rec.status = "completed"
         => rec.upload_api_response.status_code \in {200, 201}
    /\ rec.upload_api_response.status_code \notin {200, 201}
         => rec.status = "failed"

\* C25: _process_chunk drops a row that has both keys only if a row with the
\* same case_id and the same trans_key came earlier in the run, so the pair
\* (case_id, trans_key) of every such row read so far is the pair of a
\* surviving row; rows of different pairs are never duplicates of each other.
C25_DistinctPairsKept ==
  \A r \in Range(RowsRead) :
    ~MissingKey(r) => \E s \in Range(survived) : SameKey(r, s)

\* the surviving rows of the run that reads the whole input as one chunk
WholeInputRows == process_chunk(input, {}).rows

\* C26: the result of a run does not depend on the chunk size: when the
\* input is read, the surviving rows of every case are those of the run that
\* reads the same input as one chunk, and so is every trans_count.
C26_ChunkSizeIndependence ==
  /\ pc = "aggregating"
     => \A c \in Range(SortedCaseIds) :
          LET is(r) == r.case_id = c
          IN survived_of(c) = SelectSeq(WholeInputRows, is)
  /\ \A r \in Range(all_results) :
       LET is(x) == x.case_id = r.case_id
       IN r.trans_count = Len(SelectSeq(WholeInputRows, is))

\* the nine keywords of the risk-keyword derivation and the condition each
\* is listed with, over the accumulated rows g of one case
ListedKeywords ==
  {"small_amount", "high_frequency", "night", "integer_amount_high",
   "round_amount", "IP_dispersed", "device_dispersed", "anonymous",
   "suspicious_usage"}

ListedCondition(k, g) ==
  LET n == Len(g)
      whole == {i \in 1..n : g[i].trans_amt % Cent = 0}
      hundreds == {i \in 1..n : g[i].trans_amt % (100 * Cent) = 0}
      nameless == {i \in 1..n : g[i].counterparty_name = NaN}
  IN CASE k = "small_amount" -> AvgAtMostTen(g)
       [] k = "high_frequency" -> n >= 50
       [] k = "night" -> NightRatioHigh(g)
       [] k = "integer_amount_high" -> 10 * Cardinality(whole) > 7 * n
       [] k = "round_amount" -> 10 * Cardinality(hundreds) > 5 * n
       [] k = "IP_dispersed" -> IpDispersed(g)
       [] k = "device_dispersed" -> MacDispersed(g)
       [] k = "anonymous" -> 10 * Cardinality(nameless) > 5 * n
       [] k = "suspicious_usage" ->
            \E i \in 1..n :
              g[i].fund_usage \in {"chongzhi", "youxi", "chongzhi shouxufei"}
       [] OTHER -> FALSE

\* C27: every keyword in the risk_keywords of an aggregated case is one of
\* the nine listed keywords and its listed condition holds for the case; no
\* other keyword is emitted.
C27_OnlyListedKeywords ==
  \A r \in Range(all_results) :
    \A k \in Range(r.risk_keywords) :
      /\ k \in ListedKeywords
      /\ ListedCondition(k, group_of_case(r.case_id))

\* the execution ids the trigger endpoints have answered with
IssuedIds == {e \in 1..Len(executions) : executions[e].origin = "api"}

\* C28: every execution_id a trigger endpoint has answered with has an entry
\* in the status table from the moment of the answer on: a status query for
\* it never answers 'not found', whatever the interleaving of the request
\* thread and the background thread.
C28_IssuedIdHasStatus ==
  \A e \in IssuedIds : get_task_status(e).code # 404

\* C29: the status entry of a triggered execution is 'running' until the
\* execution is over and then has one terminal value: 'failed' whenever the
\* execution failed (task not found, or the task logic raised), 'completed'
\* only when the task logic ran to its end without error.
C29_TerminalStatus ==
  \A e \in IssuedIds :
    e \in DOMAIN task_execution_status
    => /\ task_execution_status[e] \in {"running", "completed", "failed"}
       /\ task_execution_status[e] # "running"
            <=> executions[e].pc = "finished"
       /\ executions[e].pc = "finished"
          => /\ executions[e].outcome \in {"not_found", "raised"}
                  => task_execution_status[e] = "failed"
             /\ task_execution_status[e] = "completed"
                  => executions[e].outcome = "completed"

=============================================================================
